---- MODULE Spec2Model ----
(***************************************************************************)
(* Visit-record-to-timeline transformation engine of the patient summary   *)
(* dashboard (lib/utils/data-processing.ts): interval ("Gantt") building    *)
(* for observations, diagnoses and medications, procedure extraction, the   *)
(* procedure events of the line chart and the procedure colour assignment.  *)
(*                                                                         *)
(* JavaScript strings are sequences of one-character strings, so that      *)
(* trim, whitespace collapse, includes and template formatting are          *)
(* computed and not assumed.  A visit date (ISO "YYYY-MM-DD", compared as   *)
(* a string by the code) is a positive integer; 0 stands for a falsy date   *)
(* (null or "").                                                            *)
(***************************************************************************)
EXTENDS Integers, Sequences, FiniteSets, TLC

VARIABLES
    visits,            \* patientData.visits, in arrival order (the input record)
    text,              \* the string argument of a text function
    fn,                \* the exported function being called
    section,           \* getGanttData: its section argument
    eyeIndex,          \* its eyeIndex argument: 0 RE, 1 LE, 2 BE
    pc,                \* "idle" | "loop" | "done" | "threw"
    sortedVisits,      \* getGanttData / getDiagnosisGanttData: the sorted copy
    index,             \* number of visits the forEach has processed
    currentCondition,  \* getGanttData: open run's value (None is null)
    conditionStart,    \* getGanttData: open run's start date (0 is null)
    conditionMap,      \* getGanttData: conditionMap
    diagMap,           \* getDiagnosisGanttData: diagMap
    diagTracker,       \* getDiagnosisGanttData: diagTracker
    result,            \* the value returned
    procedureColorMap, \* module state: procedure name -> colour
    colorIndex,        \* module state: number of colours handed out
    lastCall,          \* the last colour call: what was asked and returned,
                       \* and whether it was the first call after a reset
    resetSeen,         \* resetProcedureColors has been called
    given,             \* per name, the colours returned since the last reset
    requested,         \* the distinct names asked since the last reset, in
                       \* the order of their first request
    patientCache,      \* patient-data.service: patientCache, uid -> data
    inFlight,          \* the loader calls waiting for their fetch
    lastLoad,          \* what the last loadPatientByUID call did
    uid,               \* PatientDetailPage: the uid of the route
    patientData,       \* its patientData state (Null before any arrives)
    loading,           \* its loading state
    selectedEye,       \* its selectedEye state
    computedData       \* what its useMemo last computed

vars == <<visits, text, fn, section, eyeIndex, pc, sortedVisits, index, currentCondition,
          conditionStart, conditionMap, diagMap, diagTracker, result,
          procedureColorMap, colorIndex, lastCall, resetSeen, given, requested,
          patientCache, inFlight, lastLoad,
          uid, patientData, loading, selectedEye, computedData>>

colorVars == <<procedureColorMap, colorIndex, lastCall, resetSeen, given, requested>>

serviceVars == <<patientCache, inFlight, lastLoad>>

pageVars == <<uid, patientData, loading, selectedEye, computedData>>

\* The locals of the getGanttData loops
locals == <<sortedVisits, index, currentCondition, conditionStart, conditionMap,
            diagMap, diagTracker>>

-----------------------------------------------------------------------------
(* Bounds of the model *)

\* longest record; a record's visits carry the distinct dates 1..Len
MaxVisits == 4
\* longest record whose visits arrive in every order; a longer record arrives
\* in date order
MaxShuffled == 3
\* longest record with procedure blocks
MaxProcVisits == 3
\* number of procedure names asked a colour for
MaxColorNames == 13

-----------------------------------------------------------------------------
(* JavaScript values *)

Undef == [t |-> "undef"]                  \* undefined: an absent field
Str(s) == [t |-> "str", s |-> s]          \* a string
Arr(a) == [t |-> "arr", a |-> a]          \* an array
None == [some |-> FALSE]                  \* null in a "string | null" local
Some(s) == [some |-> TRUE, v |-> s]

Null == [t |-> "null"]                    \* null
Num == [t |-> "num"]                      \* a number where a string is expected

EmptyMap == [k \in {} |-> 0]

Min(S) == CHOOSE x \in S : \A y \in S : x <= y
Max(S) == CHOOSE x \in S : \A y \in S : x >= y

UpperCase == <<"A", "B", "C", "D", "E", "F", "G", "H", "I", "J", "K", "L", "M", "N", "O", "P", "Q", "R", "S", "T", "U", "V", "W", "X", "Y", "Z">>
LowerCase == <<"a", "b", "c", "d", "e", "f", "g", "h", "i", "j", "k", "l", "m", "n", "o", "p", "q", "r", "s", "t", "u", "v", "w", "x", "y", "z">>

\* toLowerCase()
ToLowerCase(s) ==
    [i \in 1..Len(s) |->
        IF \E j \in 1..26 : UpperCase[j] = s[i]
        THEN LowerCase[CHOOSE j \in 1..26 : UpperCase[j] = s[i]]
        ELSE s[i]]

\* s.includes(k), k not empty
Includes(s, k) ==
    \E i \in 1..(Len(s) - Len(k) + 1) : SubSeq(s, i, i + Len(k) - 1) = k

DigitChars == <<"0", "1", "2", "3", "4", "5", "6", "7", "8", "9">>

\* The decimal text of a natural number, as a template literal prints it
RECURSIVE Decimal(_)
Decimal(n) ==
    IF n < 10 THEN <<DigitChars[n + 1]>>
    ELSE Decimal(n \div 10) \o <<DigitChars[(n % 10) + 1]>>

IsSpace(c) == c = " "

RECURSIVE TrimStart(_)
TrimStart(s) ==
    IF s # <<>> /\ IsSpace(Head(s)) THEN TrimStart(Tail(s)) ELSE s

RECURSIVE TrimEnd(_)
TrimEnd(s) ==
    IF s # <<>> /\ IsSpace(s[Len(s)]) THEN TrimEnd(SubSeq(s, 1, Len(s) - 1)) ELSE s

Trim(s) == TrimEnd(TrimStart(s))

\* replace(/\s+/g, " ")
RECURSIVE CollapseSpaces(_)
CollapseSpaces(s) ==
    IF s = <<>> THEN <<>>
    ELSE IF IsSpace(Head(s)) THEN <<" ">> \o CollapseSpaces(TrimStart(s))
    ELSE <<Head(s)>> \o CollapseSpaces(Tail(s))

\* replace(/[;,]+$/, "")
RECURSIVE StripTrailingPunct(_)
StripTrailingPunct(s) ==
    IF s # <<>> /\ s[Len(s)] \in {";", ","}
    THEN StripTrailingPunct(SubSeq(s, 1, Len(s) - 1))
    ELSE s

normalizeConditionName(name) == StripTrailingPunct(CollapseSpaces(Trim(name)))

-----------------------------------------------------------------------------
(* Text the code compares with *)

INJECTION == <<"I", "n", "j", "e", "c", "t", "i", "o", "n">>
LASER == <<"L", "a", "s", "e", "r">>
SURGERY == <<"S", "u", "r", "g", "e", "r", "y">>
PROCEDURE == <<"P", "r", "o", "c", "e", "d", "u", "r", "e">>
PHOTOCOAGULATION == <<"P", "h", "o", "t", "o", "c", "o", "a", "g", "u", "l", "a", "t", "i", "o", "n">>
ANTI_VEGF == <<"A", "n", "t", "i", "-", "V", "E", "G", "F">>
STEROID == <<"S", "t", "e", "r", "o", "i", "d">>
VITRECTOMY == <<"V", "i", "t", "r", "e", "c", "t", "o", "m", "y">>
MEMBRANE == <<"M", "e", "m", "b", "r", "a", "n", "e">>
NO_RE_PROCEDURE == <<"n", "o", " ", "r", "e", " ", "p", "r", "o", "c", "e", "d", "u", "r", "e">>
NO_LE_PROCEDURE == <<"n", "o", " ", "l", "e", " ", "p", "r", "o", "c", "e", "d", "u", "r", "e">>
NO_BE_PROCEDURE == <<"n", "o", " ", "b", "e", " ", "p", "r", "o", "c", "e", "d", "u", "r", "e">>

-----------------------------------------------------------------------------
(* The input records *)

Clear == <<"C", "l", "e", "a", "r">>
Hazy == <<"H", "a", "z", "y">>

At(v) == [t |-> "obj", lens |-> v]

\* A visit dated d; an absent sub-record is Undef
Visit(d) ==
    [d |-> d, at |-> Undef, diag |-> Undef, m |-> Undef, pr |-> Undef,
     vi |-> Undef, inv |-> Undef]

VisitAt(d, at) == [Visit(d) EXCEPT !.at = at]
VisitDiag(d, diag) == [Visit(d) EXCEPT !.diag = diag]
VisitPr(d, pr) == [Visit(d) EXCEPT !.pr = pr]

\* visit.at of the ordinary visits: lens blank, "Clear" or "Hazy"
PlainAt == {At(Str(<<>>)), At(Str(Clear)), At(Str(Hazy))}

\* visit.at of the irregular visits: no anterior-segment block, no lens field,
\* a value that needs normalising, a value that normalises to "", and the
\* eye-indexed legacy arrays
OddAt ==
    { Undef,
      At(Undef),
      At(Str(<<" ", "C", "l", "e", "a", "r", ";">>)),
      At(Str(<<";">>)),
      At(Arr(<<Hazy, Clear>>)),
      At(Arr(<<Clear, <<>>>>)) }

DR == <<"D", "R">>
AMD == <<"A", "M", "D">>

\* visit.diag: [RE, LE, BE], each entry a string or an array of strings
Diag(re, le, be) == Arr(<<re, le, be>>)
NoDiag == Arr(<<>>)

PlainDiag ==
    { Diag(NoDiag, NoDiag, NoDiag),
      Diag(Arr(<<DR>>), NoDiag, NoDiag),
      Diag(NoDiag, NoDiag, Arr(<<DR>>)) }

\* no diagnosis block, a left-eye diagnosis, the string form with a count, two
\* diagnoses at once, entries that need cleaning, an array without a BE entry
OddDiag ==
    { Undef,
      Diag(NoDiag, Arr(<<DR>>), NoDiag),
      Diag(Str(<<"D", "R", " ", "×", " ", "2">>), Str(<<" ">>), NoDiag),
      Diag(Arr(<<DR, AMD>>), Arr(<<AMD>>), NoDiag),
      Diag(Arr(<<<<" ", "D", "R", ";">>, <<>>>>), NoDiag, Arr(<<AMD>>)),
      Arr(<<Arr(<<AMD>>)>>) }

Avastin == <<"A", "v", "a", "s", "t", "i", "n">>
PRP == <<"P", "R", "P">>
RetinaLaser == <<"R", "e", "t", "i", "n", "a", " ", "L", "a", "s", "e", "r">>
YAG == <<"Y", "A", "G">>

\* visit.pr: the legacy shape has act, the current shape Las, inj, surg
Pr(act, las, inj, surg) ==
    [t |-> "obj", act |-> act, Las |-> las, inj |-> inj, surg |-> surg]

Legacy(re, le) == Pr(Arr(<<re, le>>), Undef, Undef, Undef)

\* A procedure object; an absent laser_type is <<>> (as falsy as "")
Detail(procedureType, laserType) ==
    [procedure_type |-> procedureType, laser_type |-> laserType]

NoProcs == Arr(<<>>)
Empty3 == Arr(<<NoProcs, NoProcs, NoProcs>>)

\* pr of the visits in the legacy shape
LegacyPr ==
    { Legacy(Arr(<<Str(Avastin)>>), Arr(<<>>)),
      Legacy(Arr(<<Str(<<" ", "A", "v", "a", "s", "t", "i", "n", " ">>), Str(YAG)>>), Arr(<<Str(Avastin)>>)),
      Legacy(Arr(<<Str(<<"N", "o", "n", "e">>), Str(<<>>)>>), Arr(<<Str(<<"N", "o", " ", "L", "E", " ", "p", "r", "o", "c", "e", "d", "u", "r", "e", " ", "d", "o", "n", "e">>)>>)),
      Legacy(Arr(<<Str(PRP), Arr(<<Str(Avastin)>>), Num>>), Null),
      Pr(Undef, Undef, Undef, Undef) }

\* pr of the visits in the current shape
CurrentPr ==
    { Pr(Undef, Arr(<<Arr(<<Detail(RetinaLaser, PRP)>>), NoProcs, NoProcs>>),
         Empty3, Empty3),
      Pr(Undef, Undef, Arr(<<Arr(<<Detail(Avastin, <<>>)>>),
                             Arr(<<Detail(Avastin, <<>>)>>), NoProcs>>), Undef),
      Pr(Undef, Arr(<<Arr(<<Detail(YAG, <<>>)>>), NoProcs, NoProcs>>), Undef,
         Arr(<<Arr(<<Detail(VITRECTOMY, <<>>), Detail(<<>>, <<>>)>>), NoProcs,
               NoProcs>>)),
      Pr(Undef, Arr(<<NoProcs, Null, NoProcs>>), Empty3, Empty3) }

Timolol == <<"T", "i", "m", "o", "l", "o", "l">>
Diamox == <<"D", "i", "a", "m", "o", "x">>

Number(n) == [t |-> "num", n |-> n]

\* A medication; an absent name or dos is <<>> (as falsy as "")
Med(name, dos, eye, fre) == [t |-> "obj", name |-> name, dos |-> dos, eye |-> eye, fre |-> fre]

\* visit.m
MedLists ==
    { Undef,
      Arr(<<Med(Timolol, <<"1", " ", "d", "r", "o", "p">>, Number(1), Number(2))>>),
      Arr(<<Med(Timolol, <<>>, Number(1), Undef)>>),
      Arr(<<Med(<<" ", "T", "i", "m", "o", "l", "o", "l">>, <<"2", " ", "d", "r", "o", "p", "s">>, Str(<<"1">>), Undef)>>),
      Arr(<<Med(Timolol, <<>>, Number(2), Str(<<"B", "D">>)), Null,
            Med(<<" ">>, <<>>, Undef, Undef)>>),
      Arr(<<Med(Diamox, <<"2", "5", "0", "m", "g">>, Number(5), Str(<<"B", "D">>)),
            Med(Timolol, <<>>, Str(<<"3">>), Number(0))>>) }

VisitMeds(d, m) == [Visit(d) EXCEPT !.m = m]

Injective(s) == \A i, j \in DOMAIN s : s[i] = s[j] => i = j

DateSeqs(k) ==
    IF k <= MaxShuffled
    THEN {s \in [1..k -> 1..k] : Injective(s)}
    ELSE {[i \in 1..k |-> i]}

AtSeqs(k) ==
    {s \in [1..k -> PlainAt \cup OddAt] :
        Cardinality({i \in 1..k : s[i] \in OddAt}) <= 1}

DiagSeqs(k) ==
    {s \in [1..k -> PlainDiag \cup OddDiag] :
        Cardinality({i \in 1..k : s[i] \in OddDiag}) <= 1}

-----------------------------------------------------------------------------
(* getGanttData, observation categories *)

sectionFieldMap ==
    [ diagnosis |-> [parent |-> "diag", field |-> ""],
      lens |-> [parent |-> "at", field |-> "lens"] ]

\* [...visits].sort((a, b) => a.d.localeCompare(b.d)): a stable sort of a copy
RECURSIVE InsertByDate(_, _)
InsertByDate(v, s) ==
    IF s = <<>> THEN <<v>>
    ELSE IF Head(s).d < v.d THEN <<Head(s)>> \o InsertByDate(v, Tail(s))
    ELSE <<v>> \o s

\* A variant that leaves the visits in arrival order
Unsorted(s) == s

RECURSIVE SortByDate(_)
SortByDate(s) ==
    IF s = <<>> THEN <<>> ELSE InsertByDate(Head(s), SortByDate(Tail(s)))

\* A variant that replaces an existing entry instead of widening it
updateConditionMapReplacing(map, condition, start, end) ==
    IF condition = <<>> \/ start = 0 \/ end = 0 THEN map
    ELSE [k \in DOMAIN map \cup {condition} |->
            IF k = condition THEN [start |-> start, end |-> end] ELSE map[k]]

updateConditionMap(map, condition, start, end) ==
    IF condition = <<>> \/ start = 0 \/ end = 0 THEN map
    ELSE IF condition \notin DOMAIN map
    THEN [k \in DOMAIN map \cup {condition} |->
            IF k = condition THEN [start |-> start, end |-> end] ELSE map[k]]
    ELSE [map EXCEPT ![condition] =
            [start |-> IF start < @.start THEN start ELSE @.start,
             end |-> IF end > @.end THEN end ELSE @.end]]

\* value[eyeIndex] || value[0]
PickEye(a, eye) ==
    IF eye + 1 <= Len(a) /\ a[eye + 1] # <<>> THEN Str(a[eye + 1])
    ELSE IF Len(a) >= 1 THEN Str(a[1])
    ELSE Undef

Truthy(v) == v # Undef /\ v.s # <<>>

Skip == [t |-> "skip"]

\* parentObj[mapping.field], eye-resolved; Skip when the visit has no parentObj
ResolveValue(visit, sec, eye) ==
    LET mapping == sectionFieldMap[sec]
        parentObj == visit[mapping.parent]
    IN  IF parentObj = Undef THEN Skip
        ELSE LET raw == parentObj[mapping.field]
             IN  IF raw # Undef /\ raw.t = "arr" THEN PickEye(raw.a, eye) ELSE raw

Open(cur, start) == cur.some /\ cur.v # <<>> /\ start # 0

\* A variant that closes a run at the current visit's date
PrevDateCurrent(sorted, i) == sorted[i].d

\* sortedVisits[index - 1]?.d || visitDate, for the i-th visit (1-based)
PrevDate(sorted, i) ==
    IF i > 1 /\ sorted[i - 1].d # 0 THEN sorted[i - 1].d ELSE sorted[i].d

\* The forEach callback on the i-th sorted visit; st = [cur, start, map]
GanttVisit(st, sorted, i, sec, eye) ==
    LET visit == sorted[i]
        value == ResolveValue(visit, sec, eye)
        closed == IF Open(st.cur, st.start)
                  THEN updateConditionMap(st.map, st.cur.v, st.start,
                                          PrevDate(sorted, i))
                  ELSE st.map
    IN  IF value = Skip THEN st
        ELSE IF ~Truthy(value) \/ Trim(value.s) = <<>>
        THEN IF Open(st.cur, st.start)
             THEN [cur |-> None, start |-> 0, map |-> closed]
             ELSE st
        ELSE
          LET normalizedValue == normalizeConditionName(value.s)
          IN  IF Some(normalizedValue) # st.cur
              THEN [cur |-> Some(normalizedValue), start |-> visit.d,
                    map |-> closed]
              ELSE st

\* Array.from(map.entries()).map(...).filter((d) => d.start && d.end)
Intervals(map) ==
    {[task |-> k, start |-> map[k].start, end |-> map[k].end] :
        k \in {c \in DOMAIN map : map[c].start # 0 /\ map[c].end # 0}}

\* A variant that sorts patientData.visits itself, not a copy
GanttBeginInPlace ==
    /\ pc = "idle"
    /\ fn = "getGanttData"
    /\ section # "diagnosis"
    /\ \E e \in 0..2 : eyeIndex' = e
    /\ visits' = SortByDate(visits)
    /\ sortedVisits' = visits'
    /\ index' = 0
    /\ currentCondition' = None
    /\ conditionStart' = 0
    /\ conditionMap' = EmptyMap
    /\ pc' = "loop"
    /\ UNCHANGED <<serviceVars, pageVars, text, fn, section, diagMap,
                   diagTracker, result, colorVars>>

GanttBegin ==
    /\ pc = "idle"
    /\ fn = "getGanttData"
    /\ section # "diagnosis"
    /\ \E e \in 0..2 : eyeIndex' = e
    /\ sortedVisits' = SortByDate(visits)
    /\ index' = 0
    /\ currentCondition' = None
    /\ conditionStart' = 0
    /\ conditionMap' = EmptyMap
    /\ pc' = "loop"
    /\ UNCHANGED <<serviceVars, pageVars, visits, text, fn, section, diagMap,
                   diagTracker, result, colorVars>>

GanttStep ==
    /\ pc = "loop"
    /\ fn = "getGanttData"
    /\ section # "diagnosis"
    /\ index < Len(sortedVisits)
    /\ LET st == GanttVisit([cur |-> currentCondition, start |-> conditionStart,
                             map |-> conditionMap],
                            sortedVisits, index + 1, section, eyeIndex)
       IN  /\ currentCondition' = st.cur
           /\ conditionStart' = st.start
           /\ conditionMap' = st.map
    /\ index' = index + 1
    /\ UNCHANGED <<serviceVars, pageVars, visits, text, fn, section, eyeIndex,
                   pc, sortedVisits, diagMap, diagTracker, result, colorVars>>

\* The close of the run still open after the loop; st = [cur, start, map]
CloseLast(st, sorted) ==
    IF Open(st.cur, st.start)
    THEN updateConditionMap(st.map, st.cur.v, st.start, sorted[Len(sorted)].d)
    ELSE st.map

\* A variant that returns without closing the run still open
GanttEndOpenRunDropped ==
    /\ pc = "loop"
    /\ fn = "getGanttData"
    /\ section # "diagnosis"
    /\ index = Len(sortedVisits)
    /\ result' = Intervals(conditionMap)
    /\ pc' = "done"
    /\ UNCHANGED <<serviceVars, pageVars, visits, text, fn, section, eyeIndex,
                   sortedVisits, index, currentCondition, conditionStart,
                   conditionMap, diagMap, diagTracker, colorVars>>

GanttEnd ==
    /\ pc = "loop"
    /\ fn = "getGanttData"
    /\ section # "diagnosis"
    /\ index = Len(sortedVisits)
    /\ LET final == CloseLast([cur |-> currentCondition, start |-> conditionStart,
                               map |-> conditionMap], sortedVisits)
       IN  /\ conditionMap' = final
           /\ result' = Intervals(final)
    /\ pc' = "done"
    /\ UNCHANGED <<serviceVars, pageVars, visits, text, fn, section, eyeIndex,
                   sortedVisits, index, currentCondition, conditionStart,
                   diagMap, diagTracker, colorVars>>

-----------------------------------------------------------------------------
(* getDiagnosisGanttData *)

IsDigit(c) == c \in {"0", "1", "2", "3", "4", "5", "6", "7", "8", "9"}

RECURSIVE SkipDigits(_)
SkipDigits(s) == IF s # <<>> /\ IsDigit(Head(s)) THEN SkipDigits(Tail(s)) ELSE s

\* s matches /^\s*×\s*\d+\s*$/
IsTimesCount(s) ==
    LET a == TrimStart(s)
        b == IF a = <<>> THEN <<>> ELSE TrimStart(Tail(a))
    IN  /\ a # <<>> /\ Head(a) = "×"
        /\ b # <<>> /\ IsDigit(Head(b))
        /\ TrimStart(SkipDigits(b)) = <<>>

\* replace(/\s*×\s*\d+\s*$/, ""): the leftmost match is removed
StripTimesCount(s) ==
    LET at == {i \in 1..Len(s) : IsTimesCount(SubSeq(s, i, Len(s)))}
    IN  IF at = {} THEN s
        ELSE SubSeq(s, 1, (CHOOSE i \in at : \A j \in at : i <= j) - 1)

\* visit.diag[i], with a string entry wrapped ("" and blank give []) and an
\* absent entry empty
DiagArray(diag, i) ==
    LET e == IF i + 1 <= Len(diag.a) THEN diag.a[i + 1] ELSE Undef
    IN  IF e = Undef THEN <<>>
        ELSE IF e.t = "str" THEN (IF Trim(e.s) # <<>> THEN <<e.s>> ELSE <<>>)
        ELSE e.a

\* The normalized names a diagArray adds to currentDiagnoses
CleanDiagnoses(arr) ==
    {normalizeConditionName(Trim(StripTimesCount(Trim(arr[i])))) :
        i \in {j \in DOMAIN arr : Trim(arr[j]) # <<>>}} \ {<<>>}

\* currentDiagnoses of a visit: the eye's entry, and for RE and LE the BE entry
CurrentDiagnoses(visit, eye) ==
    CleanDiagnoses(DiagArray(visit.diag, eye))
        \cup (IF eye \in {0, 1} THEN CleanDiagnoses(DiagArray(visit.diag, 2)) ELSE {})

\* updateConditionMap(map, diag, tracking.start, tracking.lastSeen) for each
\* diag of the set
RECURSIVE FlushTracker(_, _, _)
FlushTracker(map, tracker, diags) ==
    IF diags = {} THEN map
    ELSE LET diag == CHOOSE x \in diags : TRUE
         IN  FlushTracker(
                updateConditionMap(map, diag, tracker[diag].start,
                                   tracker[diag].lastSeen),
                tracker, diags \ {diag})

\* A variant that keeps a condition open when a visit does not list it
DiagVisitKeepsOpen(st, visit, eye) ==
    IF visit.diag = Undef THEN st
    ELSE
      LET visitDate == visit.d
          currentDiagnoses == CurrentDiagnoses(visit, eye)
      IN  [map |-> st.map,
           tracker |->
            [diag \in DOMAIN st.tracker \cup currentDiagnoses |->
                IF diag \notin currentDiagnoses THEN st.tracker[diag]
                ELSE IF diag \in DOMAIN st.tracker
                THEN [st.tracker[diag] EXCEPT !.lastSeen = visitDate]
                ELSE [start |-> visitDate, lastSeen |-> visitDate]]]

\* The forEach callback on one sorted visit; st = [map, tracker]
DiagVisit(st, visit, eye) ==
    IF visit.diag = Undef THEN st
    ELSE
      LET visitDate == visit.d
          currentDiagnoses == CurrentDiagnoses(visit, eye)
          tracked ==
            [diag \in DOMAIN st.tracker \cup currentDiagnoses |->
                IF diag \notin currentDiagnoses THEN st.tracker[diag]
                ELSE IF diag \in DOMAIN st.tracker
                THEN [st.tracker[diag] EXCEPT !.lastSeen = visitDate]
                ELSE [start |-> visitDate, lastSeen |-> visitDate]]
          gone == {diag \in DOMAIN tracked :
                      diag \notin currentDiagnoses
                      /\ tracked[diag].lastSeen # visitDate}
      IN  [map |-> FlushTracker(st.map, tracked, gone),
           tracker |-> [diag \in DOMAIN tracked \ gone |-> tracked[diag]]]

DiagBegin ==
    /\ pc = "idle"
    /\ fn = "getGanttData"
    /\ section = "diagnosis"
    /\ \E e \in 0..2 : eyeIndex' = e
    /\ sortedVisits' = SortByDate(visits)
    /\ index' = 0
    /\ diagMap' = EmptyMap
    /\ diagTracker' = EmptyMap
    /\ pc' = "loop"
    /\ UNCHANGED <<serviceVars, pageVars, visits, text, fn, section,
                   currentCondition, conditionStart, conditionMap, result,
                   colorVars>>

DiagStep ==
    /\ pc = "loop"
    /\ fn = "getGanttData"
    /\ section = "diagnosis"
    /\ index < Len(sortedVisits)
    /\ LET st == DiagVisit([map |-> diagMap, tracker |-> diagTracker],
                           sortedVisits[index + 1], eyeIndex)
       IN  /\ diagMap' = st.map
           /\ diagTracker' = st.tracker
    /\ index' = index + 1
    /\ UNCHANGED <<serviceVars, pageVars, visits, text, fn, section, eyeIndex,
                   pc, sortedVisits, currentCondition, conditionStart,
                   conditionMap, result, colorVars>>

\* A variant that returns the map without the conditions still tracked
DiagEndTrackerDropped ==
    /\ pc = "loop"
    /\ fn = "getGanttData"
    /\ section = "diagnosis"
    /\ index = Len(sortedVisits)
    /\ result' = Intervals(diagMap)
    /\ pc' = "done"
    /\ UNCHANGED <<serviceVars, pageVars, visits, text, fn, section, eyeIndex,
                   sortedVisits, index, currentCondition, conditionStart,
                   conditionMap, diagMap, diagTracker, colorVars>>

DiagEnd ==
    /\ pc = "loop"
    /\ fn = "getGanttData"
    /\ section = "diagnosis"
    /\ index = Len(sortedVisits)
    /\ LET final == FlushTracker(diagMap, diagTracker, DOMAIN diagTracker)
       IN  /\ diagMap' = final
           /\ result' = Intervals(final)
    /\ pc' = "done"
    /\ UNCHANGED <<serviceVars, pageVars, visits, text, fn, section, eyeIndex,
                   sortedVisits, index, currentCondition, conditionStart,
                   conditionMap, diagTracker, colorVars>>

\* The two loops run to their end: the call as a function of its arguments
RECURSIVE GanttVisits(_, _, _, _, _)
GanttVisits(st, sorted, i, sec, eye) ==
    IF i > Len(sorted) THEN st
    ELSE GanttVisits(GanttVisit(st, sorted, i, sec, eye), sorted, i + 1, sec, eye)

RECURSIVE DiagVisits(_, _, _)
DiagVisits(st, sorted, eye) ==
    IF sorted = <<>> THEN st
    ELSE DiagVisits(DiagVisit(st, Head(sorted), eye), Tail(sorted), eye)

getDiagnosisGanttData(vs, eye) ==
    LET st == DiagVisits([map |-> EmptyMap, tracker |-> EmptyMap],
                         SortByDate(vs), eye)
    IN  Intervals(FlushTracker(st.map, st.tracker, DOMAIN st.tracker))

getGanttData(vs, sec, eye) ==
    IF sec = "diagnosis" THEN getDiagnosisGanttData(vs, eye)
    ELSE LET sorted == SortByDate(vs)
         IN  Intervals(CloseLast(
                GanttVisits([cur |-> None, start |-> 0, map |-> EmptyMap],
                            sorted, 1, sec, eye),
                sorted))

-----------------------------------------------------------------------------
(* getProcedures *)

injectionKeywords ==
    { <<"i", "n", "j", "e", "c", "t", "i", "o", "n">>,
      <<"i", "n", "j">>,
      <<"i", "n", "t", "r", "a", "v", "i", "t", "r", "e", "a", "l">>,
      <<"i", "v", "t">>,
      <<"i", "v", "i">>,
      <<"a", "v", "a", "s", "t", "i", "n">>,
      <<"b", "e", "v", "a", "c", "i", "z", "u", "m", "a", "b">>,
      <<"l", "u", "c", "e", "n", "t", "i", "s">>,
      <<"r", "a", "n", "i", "b", "i", "z", "u", "m", "a", "b">>,
      <<"e", "y", "l", "e", "a">>,
      <<"a", "f", "l", "i", "b", "e", "r", "c", "e", "p", "t">>,
      <<"p", "a", "g", "e", "n", "a", "x">>,
      <<"a", "c", "c", "e", "n", "t", "r", "i", "x">>,
      <<"b", "e", "o", "v", "u">>,
      <<"b", "r", "o", "l", "u", "c", "i", "z", "u", "m", "a", "b">>,
      <<"v", "a", "b", "y", "s", "m", "o">>,
      <<"f", "a", "r", "i", "c", "i", "m", "a", "b">>,
      <<"o", "z", "u", "r", "d", "e", "x">>,
      <<"d", "e", "x", "a", "m", "e", "t", "h", "a", "s", "o", "n", "e">>,
      <<"t", "r", "i", "c", "o", "r", "t">>,
      <<"t", "r", "i", "a", "m", "c", "i", "n", "o", "l", "o", "n", "e">>,
      <<"k", "e", "n", "a", "l", "o", "g">>,
      <<"i", "l", "u", "v", "i", "e", "n">>,
      <<"f", "l", "u", "o", "c", "i", "n", "o", "l", "o", "n", "e">>,
      <<"j", "e", "t", "r", "e", "a">>,
      <<"o", "c", "r", "i", "p", "l", "a", "s", "m", "i", "n">>,
      <<"m", "a", "c", "u", "g", "e", "n">>,
      <<"p", "e", "g", "a", "p", "t", "a", "n", "i", "b">>,
      <<"r", "e", "t", "i", "s", "e", "r", "t">>,
      <<"a", "n", "t", "i", "-", "v", "e", "g", "f">>,
      <<"a", "n", "t", "i", "v", "e", "g", "f">>,
      <<"o", "c", "e", "v", "a">>,
      <<"r", "a", "n", "i", "e", "y", "e", "s">>,
      <<"r", "a", "z", "u", "m", "a", "b">> }

laserKeywords ==
    { <<"l", "a", "s", "e", "r">>,
      <<"p", "h", "o", "t", "o", "c", "o", "a", "g", "u", "l", "a", "t", "i", "o", "n">>,
      <<"p", "f", "c">>,
      <<"a", "r", "g", "o", "n">>,
      <<"d", "i", "o", "d", "e">>,
      <<"m", "i", "c", "r", "o", "p", "u", "l", "s", "e">>,
      <<"p", "a", "s", "c", "a", "l">>,
      <<"p", "a", "t", "t", "e", "r", "n", " ", "s", "c", "a", "n">>,
      <<"p", "a", "n", "r", "e", "t", "i", "n", "a", "l", " ", "p", "h", "o", "t", "o", "c", "o", "a", "g", "u", "l", "a", "t", "i", "o", "n">>,
      <<"p", "r", "p">>,
      <<"f", "o", "c", "a", "l", " ", "l", "a", "s", "e", "r">>,
      <<"g", "r", "i", "d", " ", "l", "a", "s", "e", "r">>,
      <<"m", "a", "c", "u", "l", "a", "r", " ", "l", "a", "s", "e", "r">>,
      <<"s", "c", "a", "t", "t", "e", "r", " ", "l", "a", "s", "e", "r">>,
      <<"p", "e", "r", "i", "p", "h", "e", "r", "a", "l", " ", "l", "a", "s", "e", "r">>,
      <<"r", "e", "t", "i", "n", "a", "l", " ", "p", "h", "o", "t", "o", "c", "o", "a", "g", "u", "l", "a", "t", "i", "o", "n">>,
      <<"l", "a", "s", "e", "r", " ", "p", "h", "o", "t", "o", "c", "o", "a", "g", "u", "l", "a", "t", "i", "o", "n">>,
      <<"p", "h", "o", "t", "o", "d", "y", "n", "a", "m", "i", "c", " ", "t", "h", "e", "r", "a", "p", "y">>,
      <<"p", "d", "t">>,
      <<"v", "e", "r", "t", "e", "p", "o", "r", "f", "i", "n">>,
      <<"v", "i", "s", "u", "d", "y", "n", "e">> }

surgicalKeywords ==
    { <<"v", "i", "t", "r", "e", "c", "t", "o", "m", "y">>,
      <<"p", "p", "v">>,
      <<"p", "a", "r", "s", " ", "p", "l", "a", "n", "a", " ", "v", "i", "t", "r", "e", "c", "t", "o", "m", "y">>,
      <<"m", "e", "m", "b", "r", "a", "n", "e", " ", "p", "e", "e", "l">>,
      <<"e", "p", "i", "r", "e", "t", "i", "n", "a", "l", " ", "m", "e", "m", "b", "r", "a", "n", "e">>,
      <<"m", "a", "c", "u", "l", "a", "r", " ", "h", "o", "l", "e">>,
      <<"r", "e", "t", "i", "n", "a", "l", " ", "d", "e", "t", "a", "c", "h", "m", "e", "n", "t">>,
      <<"s", "c", "l", "e", "r", "a", "l", " ", "b", "u", "c", "k", "l", "e">>,
      <<"p", "n", "e", "u", "m", "a", "t", "i", "c", " ", "r", "e", "t", "i", "n", "o", "p", "e", "x", "y">>,
      <<"e", "n", "d", "o", "l", "a", "s", "e", "r">>,
      <<"e", "n", "d", "o", "p", "h", "o", "t", "o", "c", "o", "a", "g", "u", "l", "a", "t", "i", "o", "n">>,
      <<"s", "i", "l", "i", "c", "o", "n", "e", " ", "o", "i", "l">>,
      <<"g", "a", "s", " ", "t", "a", "m", "p", "o", "n", "a", "d", "e">>,
      <<"c", "3", "f", "8">>,
      <<"s", "f", "6">>,
      <<"a", "i", "r", " ", "t", "a", "m", "p", "o", "n", "a", "d", "e">> }

\* A variant that looks for the laser keywords before the injection keywords
classifyProcedureTypeLaserFirst(procedureName) ==
    LET name == Trim(ToLowerCase(procedureName))
    IN  IF \E keyword \in laserKeywords : Includes(name, keyword) THEN LASER
        ELSE IF \E keyword \in injectionKeywords : Includes(name, keyword) THEN INJECTION
        ELSE IF \E keyword \in surgicalKeywords : Includes(name, keyword) THEN SURGERY
        ELSE PROCEDURE

classifyProcedureType(procedureName) ==
    LET name == Trim(ToLowerCase(procedureName))
    IN  IF \E keyword \in injectionKeywords : Includes(name, keyword) THEN INJECTION
        ELSE IF \E keyword \in laserKeywords : Includes(name, keyword) THEN LASER
        ELSE IF \E keyword \in surgicalKeywords : Includes(name, keyword) THEN SURGERY
        ELSE PROCEDURE

\* pr.Las !== undefined || pr.inj !== undefined || pr.surg !== undefined
HasNewFormat(pr) == pr.Las # Undef \/ pr.inj # Undef \/ pr.surg # Undef

\* list.some((arr) => arr.length > 0): reading the length of a null entry throws
SomeNonEmpty(list) ==
    LET hit == {i \in DOMAIN list : list[i] = Null \/ Len(list[i].a) > 0}
    IN  IF hit = {} THEN "false"
        ELSE IF list[Min(hit)] = Null THEN "throw"
        ELSE "true"

\* (pr.Las && pr.Las.some(...)) || (pr.inj && ...) || (pr.surg && ...)
RECURSIVE HasData(_, _)
HasData(pr, fields) ==
    IF fields = <<>> THEN "false"
    ELSE LET some == IF pr[Head(fields)] = Undef THEN "false"
                     ELSE SomeNonEmpty(pr[Head(fields)].a)
         IN  IF some = "false" THEN HasData(pr, Tail(fields)) ELSE some

\* isNewProcedureFormat(pr) does not return: the hasData logging throws
isNewProcedureFormatThrows(pr) ==
    HasNewFormat(pr) /\ HasData(pr, <<"Las", "inj", "surg">>) = "throw"

isNewProcedureFormat(pr) == HasNewFormat(pr)

\* pr[field][eyeIndex] when it is a non-empty array, else []
ProcsOfEye(pr, field, eye) ==
    IF pr[field] = Undef THEN <<>>
    ELSE LET list == pr[field].a
         IN  IF eye + 1 <= Len(list) /\ list[eye + 1] # Null
             THEN list[eye + 1].a ELSE <<>>

\* The name under which a procedure object of pr[field] is counted
ProcName(proc, field) ==
    IF field = "Las" /\ proc.laser_type # <<>>
    THEN proc.procedure_type \o <<" ", "-", " ">> \o proc.laser_type
    ELSE proc.procedure_type

RECURSIVE NamedProcs(_, _)
NamedProcs(procs, field) ==
    IF procs = <<>> THEN <<>>
    ELSE (IF Head(procs).procedure_type # <<>>
          THEN <<[field |-> field, name |-> ProcName(Head(procs), field)]>>
          ELSE <<>>) \o NamedProcs(Tail(procs), field)

\* The procedures a current-shape visit contributes, Las, inj, surg in turn
NewFormatProcs(pr, eye) ==
    NamedProcs(ProcsOfEye(pr, "Las", eye), "Las")
        \o NamedProcs(ProcsOfEye(pr, "inj", eye), "inj")
        \o NamedProcs(ProcsOfEye(pr, "surg", eye), "surg")

\* procCount.set(name, (procCount.get(name) || 0) + 1), a Map in insertion order
CountName(procCount, name) ==
    IF \E i \in DOMAIN procCount : procCount[i].name = name
    THEN [i \in DOMAIN procCount |->
            IF procCount[i].name = name
            THEN [procCount[i] EXCEPT !.count = @ + 1] ELSE procCount[i]]
    ELSE Append(procCount, [name |-> name, count |-> 1])

RECURSIVE CountNames(_, _)
CountNames(procCount, names) ==
    IF names = <<>> THEN procCount
    ELSE CountNames(CountName(procCount, Head(names)), Tail(names))

\* A variant that never shows the count
ItemLabelBare(name, count) == name

\* `${name}${count > 1 ? ` (${count}x)` : ""}`
ItemLabel(name, count) ==
    name \o (IF count > 1 THEN <<" ", "(">> \o Decimal(count) \o <<"x", ")">>
             ELSE <<>>)

\* The type getProceduresFromNewFormat derives from the name
NewFormatType(name) ==
    IF Includes(name, LASER) \/ Includes(name, <<"P", "R", "P">>)
       \/ Includes(name, PHOTOCOAGULATION)
    THEN LASER
    ELSE IF Includes(name, INJECTION) \/ Includes(name, ANTI_VEGF)
            \/ Includes(name, STEROID)
    THEN INJECTION
    ELSE IF Includes(name, SURGERY) \/ Includes(name, VITRECTOMY)
            \/ Includes(name, MEMBRANE)
    THEN SURGERY
    ELSE PROCEDURE

RECURSIVE NewFormatNames(_, _)
NewFormatNames(vs, eye) ==
    IF vs = <<>> THEN <<>>
    ELSE LET pr == Head(vs).pr
             procs == IF pr # Undef /\ isNewProcedureFormat(pr)
                      THEN NewFormatProcs(pr, eye) ELSE <<>>
         IN  [i \in DOMAIN procs |-> procs[i].name] \o NewFormatNames(Tail(vs), eye)

getProceduresFromNewFormat(vs, eye) ==
    LET procCount == CountNames(<<>>, NewFormatNames(vs, eye))
    IN  [i \in DOMAIN procCount |->
            [type |-> NewFormatType(procCount[i].name),
             item |-> ItemLabel(procCount[i].name, procCount[i].count)]]

RECURSIVE flattenProcedureArray(_)
flattenProcedureArray(arr) ==
    IF arr = <<>> THEN <<>>
    ELSE (IF Head(arr).t = "str" THEN <<Head(arr).s>>
          ELSE IF Head(arr).t = "arr" THEN flattenProcedureArray(Head(arr).a)
          ELSE <<>>) \o flattenProcedureArray(Tail(arr))

isProcedurePlaceholder(proc) ==
    LET normalized == ToLowerCase(Trim(proc))
    IN  \/ Includes(normalized, NO_RE_PROCEDURE)
        \/ Includes(normalized, NO_LE_PROCEDURE)
        \/ Includes(normalized, NO_BE_PROCEDURE)
        \/ normalized = <<"n", "o", " ", "p", "r", "o", "c", "e", "d", "u", "r", "e">>
        \/ normalized = <<"n", "o", "n", "e">>
        \/ normalized = <<"n", "i", "l">>
        \/ normalized = <<"n", "/", "a">>
        \/ normalized = <<"-">>

\* flattenProcedureArray(actProcs[i]).filter((p) => p && typeof p === "string")
ActStrings(act, i) ==
    IF i + 1 <= Len(act) /\ act[i + 1] # Null
    THEN SelectSeq(flattenProcedureArray(act[i + 1].a), LAMBDA p : p # <<>>)
    ELSE <<>>

\* proceduresToCheck of a legacy-shape visit
ProceduresToCheck(pr, eye) ==
    IF pr.act = Undef THEN <<>>
    ELSE IF eye = 2 THEN ActStrings(pr.act.a, 0) \o ActStrings(pr.act.a, 1)
    ELSE ActStrings(pr.act.a, eye)

\* The trimmed names of proceduresToCheck that are counted
RECURSIVE CountedNames(_)
CountedNames(procs) ==
    IF procs = <<>> THEN <<>>
    ELSE LET name == Trim(Head(procs))
         IN  (IF name # <<>> /\ ~isProcedurePlaceholder(name) THEN <<name>>
              ELSE <<>>) \o CountedNames(Tail(procs))

RECURSIVE LegacyNames(_, _)
LegacyNames(vs, eye) ==
    IF vs = <<>> THEN <<>>
    ELSE (IF Head(vs).pr # Undef
          THEN CountedNames(ProceduresToCheck(Head(vs).pr, eye)) ELSE <<>>)
         \o LegacyNames(Tail(vs), eye)

\* getProcedures throws when isNewProcedureFormat throws on a visit: in the
\* hasNewFormat scan, or else in getProceduresFromNewFormat's scan of all visits
getProceduresThrows(vs) ==
    \E i \in DOMAIN vs : vs[i].pr # Undef /\ isNewProcedureFormatThrows(vs[i].pr)

getProcedures(vs, eye) ==
    LET hasNewFormat ==
            \E i \in DOMAIN vs : vs[i].pr # Undef /\ isNewProcedureFormat(vs[i].pr)
    IN  IF hasNewFormat THEN getProceduresFromNewFormat(vs, eye)
        ELSE LET procCount == CountNames(<<>>, LegacyNames(vs, eye))
             IN  [i \in DOMAIN procCount |->
                    [type |-> classifyProcedureType(procCount[i].name),
                     item |-> ItemLabel(procCount[i].name, procCount[i].count)]]

CallGetProcedures ==
    /\ pc = "idle"
    /\ fn = "getProcedures"
    /\ \E e \in 0..2 :
        /\ eyeIndex' = e
        /\ IF getProceduresThrows(visits)
           THEN pc' = "threw" /\ result' = result
           ELSE pc' = "done" /\ result' = getProcedures(visits, e)
    /\ UNCHANGED <<serviceVars, pageVars, visits, text, fn, section, locals,
                   colorVars>>

-----------------------------------------------------------------------------
(* getMedicationsGanttData *)

\* "9999-12-31" and "0001-01-01": later and earlier than every visit date
FarFuture == 99991231
FarPast == -1

\* med.eye === n || med.eye === "n"
EyeIs(eye, n) == eye = Number(n) \/ eye = Str(Decimal(n))

\* A variant that knows the eye codes as numbers only
EyeLabelNumbersOnly(eye) ==
    IF eye = Number(1) THEN <<" ", "(", "R", "E", ")">>
    ELSE IF eye = Number(2) THEN <<" ", "(", "L", "E", ")">>
    ELSE IF eye = Number(3) THEN <<" ", "(", "B", "E", ")">>
    ELSE <<>>

EyeLabel(eye) ==
    IF EyeIs(eye, 1) THEN <<" ", "(", "R", "E", ")">>
    ELSE IF EyeIs(eye, 2) THEN <<" ", "(", "L", "E", ")">>
    ELSE IF EyeIs(eye, 3) THEN <<" ", "(", "B", "E", ")">>
    ELSE <<>>

\* `${med.fre}`
FreText(fre) == IF fre.t = "num" THEN Decimal(fre.n) ELSE fre.s

FreTruthy(fre) ==
    fre # Undef /\ (IF fre.t = "num" THEN fre.n # 0 ELSE fre.s # <<>>)

\* med.dos && med.fre ? `${med.dos} x ${med.fre}` : med.dos ? med.dos : ""
DosageStr(med) ==
    IF med.dos # <<>> /\ FreTruthy(med.fre)
    THEN med.dos \o <<" ", "x", " ">> \o FreText(med.fre)
    ELSE med.dos

\* The visit.m.forEach callback; medMap is a Map in insertion order
MedEntry(medMap, med, visitDate) ==
    IF med = Null \/ Trim(med.name) = <<>> \/ visitDate = 0 THEN medMap
    ELSE
      LET task == Trim(med.name) \o EyeLabel(med.eye)
          dosageStr == DosageStr(med)
          at == {i \in DOMAIN medMap : medMap[i].task = task}
          entry == IF at = {}
                   THEN [task |-> task, start |-> FarFuture, end |-> FarPast,
                         dosage |-> dosageStr]
                   ELSE medMap[CHOOSE i \in at : TRUE]
          updated ==
            [task |-> task,
             start |-> IF visitDate < entry.start THEN visitDate ELSE entry.start,
             end |-> IF visitDate > entry.end THEN visitDate ELSE entry.end,
             dosage |-> IF visitDate < entry.start /\ dosageStr # <<>>
                        THEN dosageStr ELSE entry.dosage]
      IN  IF at = {} THEN Append(medMap, updated)
          ELSE [i \in DOMAIN medMap |-> IF i \in at THEN updated ELSE medMap[i]]

RECURSIVE MedEntries(_, _, _)
MedEntries(medMap, meds, visitDate) ==
    IF meds = <<>> THEN medMap
    ELSE MedEntries(MedEntry(medMap, Head(meds), visitDate), Tail(meds), visitDate)

RECURSIVE MedVisits(_, _)
MedVisits(medMap, vs) ==
    IF vs = <<>> THEN medMap
    ELSE MedVisits(IF Head(vs).m = Undef THEN medMap
                   ELSE MedEntries(medMap, Head(vs).m.a, Head(vs).d),
                   Tail(vs))

getMedicationsGanttData(vs) ==
    SelectSeq(MedVisits(<<>>, vs),
              LAMBDA e : e.start # FarFuture /\ e.end # FarPast)

CallGetMedicationsGanttData ==
    /\ pc = "idle"
    /\ fn = "getMedicationsGanttData"
    /\ result' = getMedicationsGanttData(visits)
    /\ pc' = "done"
    /\ UNCHANGED <<serviceVars, pageVars, visits, text, fn, section, eyeIndex,
                   locals, colorVars>>

-----------------------------------------------------------------------------
(* Procedure colours *)

COLOR_PALETTE ==
    << "#00bcd4", "#4ade80", "#06b6d4", "#8b5cf6", "#f472b6", "#ef4444",
       "#f97316", "#eab308", "#3b82f6", "#ec4899", "#10b981", "#f59e0b" >>

\* A variant that hands out the next colour without remembering the name
getProcedureColorUnrecorded(cs, procedureName) ==
    [color |-> COLOR_PALETTE[(cs.index % Len(COLOR_PALETTE)) + 1],
     map |-> cs.map, index |-> cs.index + 1]

\* A variant that moves the palette index on at every call
getProcedureColorCountingCalls(cs, procedureName) ==
    IF procedureName \in DOMAIN cs.map
    THEN [color |-> cs.map[procedureName], map |-> cs.map, index |-> cs.index + 1]
    ELSE LET color == COLOR_PALETTE[(cs.index % Len(COLOR_PALETTE)) + 1]
         IN  [color |-> color,
              map |-> [n \in DOMAIN cs.map \cup {procedureName} |->
                        IF n = procedureName THEN color ELSE cs.map[n]],
              index |-> cs.index + 1]

\* getProcedureColor(procedureName) on the state cs = [map, index]: the colour
\* returned and the state left
getProcedureColor(cs, procedureName) ==
    IF procedureName \in DOMAIN cs.map
    THEN [color |-> cs.map[procedureName], map |-> cs.map, index |-> cs.index]
    ELSE LET color == COLOR_PALETTE[(cs.index % Len(COLOR_PALETTE)) + 1]
         IN  [color |-> color,
              map |-> [n \in DOMAIN cs.map \cup {procedureName} |->
                        IF n = procedureName THEN color ELSE cs.map[n]],
              index |-> cs.index + 1]

\* The names a caller asks a colour for
ColorName(i) == <<"p">> \o Decimal(i)

\* A caller asks for a name asked before or for a new one.  The function
\* knows a name by equality only, so the new name is always the next unused
\* one of ColorName.
CallGetProcedureColor ==
    /\ fn = "colors"
    /\ \E i \in 1..MaxColorNames :
         /\ i <= Cardinality(DOMAIN procedureColorMap) + 1
         /\ \E r \in { getProcedureColor([map |-> procedureColorMap,
                                           index |-> colorIndex], ColorName(i)) } :
             LET name == ColorName(i)
             IN  /\ procedureColorMap' = r.map
                 /\ colorIndex' = r.index
                 /\ lastCall' = [op |-> "get", name |-> name, color |-> r.color,
                                  first |-> lastCall.op = "reset"]
                 /\ given' = [n \in DOMAIN given \cup {name} |->
                                IF n = name
                                THEN (IF n \in DOMAIN given THEN given[n] ELSE {})
                                        \cup {r.color}
                                ELSE given[n]]
                 /\ requested' = IF \E k \in DOMAIN requested : requested[k] = name
                                  THEN requested
                                  ELSE Append(requested, name)
    /\ UNCHANGED <<serviceVars, pageVars, visits, text, fn, section, eyeIndex,
                   pc, locals, result, resetSeen>>

resetProcedureColors ==
    /\ fn = "colors"
    /\ procedureColorMap' = EmptyMap
    /\ colorIndex' = 0
    /\ lastCall' = [op |-> "reset"]
    /\ resetSeen' = TRUE
    /\ given' = EmptyMap
    /\ requested' = <<>>
    /\ UNCHANGED <<serviceVars, pageVars, visits, text, fn, section, eyeIndex,
                   pc, locals, result>>

-----------------------------------------------------------------------------
(* decompressVision, convertVAToNumeric *)

\* toUpperCase()
ToUpperCase(s) ==
    [i \in 1..Len(s) |->
        IF \E j \in 1..26 : LowerCase[j] = s[i]
        THEN UpperCase[CHOOSE j \in 1..26 : LowerCase[j] = s[i]]
        ELSE s[i]]

\* ["CF", "HM", "PL", "LP", "NLP", "NPL", "FCMF", "FCF"]
VisionSpecials ==
    { <<"C", "F">>, <<"H", "M">>, <<"P", "L">>, <<"L", "P">>, <<"N", "L", "P">>, <<"N", "P", "L">>, <<"F", "C", "M", "F">>, <<"F", "C", "F">> }

\* A variant that does not look for a "/" before inserting one
decompressVisionSlashUnchecked(compressed) ==
    IF Len(compressed) >= 2 /\ IsDigit(compressed[1]) /\ IsDigit(compressed[2])
    THEN <<compressed[1], "/">> \o Tail(compressed)
    ELSE compressed

\* The tokens carry no line break, so (.*)$ takes all that follows the digits
decompressVision(compressed) ==
    IF compressed = <<>> THEN <<>>
    ELSE LET upper == Trim(ToUpperCase(compressed))
         IN  IF upper \in VisionSpecials THEN upper
             ELSE IF Includes(compressed, <<"/">>) THEN compressed
             ELSE IF /\ Len(compressed) >= 2
                     /\ IsDigit(compressed[1]) /\ IsDigit(compressed[2])
             THEN <<compressed[1], "/">> \o Tail(compressed)
             ELSE compressed

\* snellenToLogMAR, in hundredths
snellenToLogMAR ==
    {  <<<<"6", "/", "6">>, 0>>,
       <<<<"6", "/", "7", ".", "5">>, 10>>,
       <<<<"6", "/", "9">>, 18>>,
       <<<<"6", "/", "1", "2">>, 30>>,
       <<<<"6", "/", "1", "5">>, 40>>,
       <<<<"6", "/", "1", "8">>, 48>>,
       <<<<"6", "/", "2", "4">>, 60>>,
       <<<<"6", "/", "3", "0">>, 70>>,
       <<<<"6", "/", "3", "6">>, 78>>,
       <<<<"6", "/", "4", "8">>, 90>>,
       <<<<"6", "/", "6", "0">>, 100>>,
       <<<<"6", "/", "1", "2", "0">>, 130>>,
       <<<<"2", "0", "/", "2", "0">>, 0>>,
       <<<<"2", "0", "/", "2", "5">>, 10>>,
       <<<<"2", "0", "/", "3", "0">>, 18>>,
       <<<<"2", "0", "/", "4", "0">>, 30>>,
       <<<<"2", "0", "/", "5", "0">>, 40>>,
       <<<<"2", "0", "/", "6", "0">>, 48>>,
       <<<<"2", "0", "/", "8", "0">>, 60>>,
       <<<<"2", "0", "/", "1", "0", "0">>, 70>>,
       <<<<"2", "0", "/", "1", "2", "0">>, 78>>,
       <<<<"2", "0", "/", "1", "6", "0">>, 90>>,
       <<<<"2", "0", "/", "2", "0", "0">>, 100>> }

\* A number of the plot scale, in hundredths; the two infinities of IEEE
Infinity == [t |-> "inf"]
NegInfinity == [t |-> "-inf"]
NaN == [t |-> "nan"]

DigitValue(c) == (CHOOSE i \in 1..10 : DigitChars[i] = c) - 1

\* The value of the longest prefix of digits
RECURSIVE DigitsValue(_, _)
DigitsValue(s, acc) ==
    IF s # <<>> /\ IsDigit(Head(s))
    THEN DigitsValue(Tail(s), 10 * acc + DigitValue(Head(s)))
    ELSE acc

\* parseFloat(s) in tenths, of a text without sign or exponent: leading blanks
\* skipped, then digits with an optional decimal part, of which the first
\* decimal is kept; NaN when no digit begins the number
parseFloat(s) ==
    LET t == TrimStart(s)
        rest == SkipDigits(t)
        decimals == IF rest # <<>> /\ Head(rest) = "." THEN Tail(rest) ELSE <<>>
        tenth == IF decimals # <<>> /\ IsDigit(Head(decimals))
                 THEN DigitValue(Head(decimals)) ELSE 0
    IN  IF t # <<>> /\ IsDigit(Head(t))
        THEN Number(10 * DigitsValue(t, 0) + tenth)
        ELSE IF decimals # <<>> /\ IsDigit(Head(decimals)) THEN Number(tenth)
        ELSE NaN

\* Math.log10(a / b) in hundredths for a, b > 0, rounded down to within two
\* hundredths: the characteristic by scaling, the mantissa by seven squarings
RECURSIVE ScaleRatio(_, _, _)
ScaleRatio(a, b, c) ==
    IF a < b THEN ScaleRatio(10 * a, b, c - 1)
    ELSE IF a >= 10 * b THEN ScaleRatio(a, 10 * b, c + 1)
    ELSE [x |-> (1000 * a) \div b, c |-> c]

RECURSIVE LogBits(_, _, _)
LogBits(x, i, acc) ==
    IF i = 0 THEN acc
    ELSE LET y == (x * x) \div 1000
         IN  IF y >= 10000 THEN LogBits(y \div 10, i - 1, 2 * acc + 1)
             ELSE LogBits(y, i - 1, 2 * acc)

Log10Hundredths(a, b) ==
    LET r == ScaleRatio(a, b, 0)
    IN  100 * r.c + (100 * LogBits(r.x, 7, 0)) \div 128

\* upper.split("/")
RECURSIVE Split(_, _)
Split(s, sep) ==
    IF \E i \in DOMAIN s : s[i] = sep
    THEN LET i == Min({j \in DOMAIN s : s[j] = sep})
         IN  <<SubSeq(s, 1, i - 1)>> \o Split(SubSeq(s, i + 1, Len(s)), sep)
    ELSE <<s>>

\* The fraction branch: the value returned, or NaN when the branch falls through
FractionValue(upper) ==
    LET parts == Split(upper, "/")
    IN  IF Len(parts) # 2 THEN NaN
        ELSE LET numerator == parseFloat(parts[1])
                 denominator == parseFloat(parts[2])
             IN  IF numerator = NaN \/ denominator = NaN THEN NaN
                 ELSE IF denominator.n = 0 THEN NaN
                 ELSE IF numerator.n = 0 THEN NegInfinity
                 ELSE Number(150 - Log10Hundredths(denominator.n, numerator.n))

\* The near-vision branch: 1.5 - Math.log10(num / 6)
NearValue(upper) ==
    LET num == parseFloat(Tail(upper))
    IN  IF num = NaN THEN NaN
        ELSE IF num.n = 0 THEN Infinity
        ELSE Number(150 - Log10Hundredths(num.n, 60))

\* A variant without the special acuity tokens
convertVAToNumericFractionsOnly(va) ==
    LET upper == Trim(ToUpperCase(va))
    IN  IF va # <<>> /\ Includes(upper, <<"/">>) /\ FractionValue(upper) # NaN
        THEN FractionValue(upper)
        ELSE Null

convertVAToNumeric(va) ==
    IF va = <<>> THEN Null
    ELSE
      LET upper == Trim(ToUpperCase(va))
          listed == {row \in snellenToLogMAR : row[1] = upper /\ row[2] # 0}
      IN  IF listed # {}
          THEN Number(150 - (CHOOSE row \in listed : TRUE)[2])
          ELSE IF Includes(upper, <<"/">>) /\ FractionValue(upper) # NaN
          THEN FractionValue(upper)
          ELSE IF upper # <<>> /\ Head(upper) = "N" /\ NearValue(upper) # NaN
          THEN NearValue(upper)
          ELSE IF Includes(upper, <<"C", "F">>) THEN Number(-50)
          ELSE IF upper = <<"H", "M">> THEN Number(-100)
          ELSE IF upper \in {<<"P", "L">>, <<"L", "P">>} THEN Number(-150)
          ELSE IF upper \in {<<"N", "L", "P">>, <<"N", "O", " ", "P", "L">>,
                             <<"N", "A", "S">>, <<"N", "P", "L">>}
          THEN Number(-200)
          ELSE Null

\* The acuity texts tried: special tokens, fractions of the table and off it,
\* compact forms, near-vision forms and texts that are none of these, each
\* also in lower case, with a blank before or after and with a letter suffix
VisionCores ==
    { <<"C", "F">>,
      <<"H", "M">>,
      <<"P", "L">>,
      <<"L", "P">>,
      <<"N", "L", "P">>,
      <<"N", "P", "L">>,
      <<"N", "O", " ", "P", "L">>,
      <<"N", "A", "S">>,
      <<"F", "C", "M", "F">>,
      <<"F", "C", "F">>,
      <<"6", "/", "6">>,
      <<"6", "/", "9">>,
      <<"6", "/", "1", "8">>,
      <<"6", "/", "6", "0">>,
      <<"6", "/", "1", "2", "0">>,
      <<"6", "/", "5">>,
      <<"6", "/", "7", ".", "5">>,
      <<"2", "0", "/", "4", "0">>,
      <<"1", "/", "6", "0">>,
      <<"3", "/", "6", "0">>,
      <<"6", "1", "8">>,
      <<"6", "6">>,
      <<"6", "6", "0">>,
      <<"6", "1", "2", "0">>,
      <<"6">>,
      <<"N", "6">>,
      <<"N", "3", "6">>,
      <<"N", "0">>,
      <<"6", "/">>,
      <<"/", "6">>,
      <<"6", "/", "0">>,
      <<"0", "/", "6">>,
      <<"6", "/", "6", "/", "6">>,
      <<"A", "B", "C">>,
      <<"C", "F", "C", "F">>,
      <<"X", "/", "Y">> }

VisionTexts ==
    {pre \o core \o suf :
        pre \in {<<>>, <<" ">>},
        core \in VisionCores \cup {ToLowerCase(c) : c \in VisionCores},
        suf \in {<<>>, <<" ">>, <<"P">>}} \cup {<<>>}

CallDecompressVision ==
    /\ pc = "idle"
    /\ fn = "decompressVision"
    /\ result' = decompressVision(text)
    /\ pc' = "done"
    /\ UNCHANGED <<serviceVars, pageVars, visits, text, fn, section, eyeIndex,
                   locals, colorVars>>

CallConvertVAToNumeric ==
    /\ pc = "idle"
    /\ fn = "convertVAToNumeric"
    /\ result' = convertVAToNumeric(text)
    /\ pc' = "done"
    /\ UNCHANGED <<serviceVars, pageVars, visits, text, fn, section, eyeIndex,
                   locals, colorVars>>

-----------------------------------------------------------------------------------------------------------------------------------------------------
(* extractCMTFromText *)

\* \w of a regular expression; the text before the first character is not one
IsWordChar(c) ==
    \/ \E j \in 1..26 : c = UpperCase[j] \/ c = LowerCase[j]
    \/ IsDigit(c)
    \/ c = "_"

\* s, read without regard to case, begins with the upper-case word k
BeginsWith(s, k) ==
    Len(s) >= Len(k) /\ ToUpperCase(SubSeq(s, 1, Len(k))) = k

\* Length of what (?:µm|um|mm|Mm|M)? takes at the head of s under the i flag;
\* withM is FALSE for the shorter list (?:µm|um|mm)?
UnitLength(s, withM) ==
    IF Len(s) >= 2 /\ ToUpperCase(SubSeq(s, 1, 2)) \in {<<"µ", "M">>, <<"U", "M">>, <<"M", "M">>}
    THEN 2
    ELSE IF withM /\ s # <<>> /\ ToUpperCase(<<Head(s)>>) = <<"M">> THEN 1
    ELSE 0

NoMatch == [ok |-> FALSE]

\* \s*[-:;,]?\s*(\d+\s*(?:µm|um|mm|Mm|M)?) at the head of s, after an optional
\* quote when quoted is TRUE; the value is the group with its blanks removed,
\* in upper case
ValueAt(s, quoted) ==
    LET a == TrimStart(s)
        b == IF a # <<>> /\ Head(a) \in {"-", ":", ";", ","} THEN Tail(a) ELSE a
        c == TrimStart(b)
        d == IF quoted /\ c # <<>> /\ Head(c) \in {"'", "\""} THEN Tail(c) ELSE c
        e == SkipDigits(d)
        f == TrimStart(e)
        u == UnitLength(f, TRUE)
    IN  IF d # <<>> /\ IsDigit(Head(d))
        THEN [ok |-> TRUE,
              value |-> ToUpperCase(SubSeq(d, 1, Len(d) - Len(e)) \o SubSeq(f, 1, u)),
              rest |-> SubSeq(f, u + 1, Len(f))]
        ELSE NoMatch

\* /\b(RE|LE)\s*[-:;,]?\s*['"]?(\d+\s*(?:µm|um|mm|Mm|M)?)/gi tried at the head
\* of s, prev being the character before it ("" at the start of the text)
ExplicitAt(prev, s) ==
    IF ~IsWordChar(prev) /\ (BeginsWith(s, <<"R", "E">>) \/ BeginsWith(s, <<"L", "E">>))
    THEN LET m == ValueAt(SubSeq(s, 3, Len(s)), TRUE)
         IN  IF m.ok
             THEN [ok |-> TRUE, eye |-> ToUpperCase(SubSeq(s, 1, 2)),
                   value |-> m.value, rest |-> m.rest]
             ELSE NoMatch
    ELSE NoMatch

\* The while loop over explicitRegex.exec: the last labelled value of each eye
RECURSIVE ExplicitScan(_, _, _)
ExplicitScan(prev, s, found) ==
    IF s = <<>> THEN found
    ELSE LET m == ExplicitAt(prev, s)
         IN  IF m.ok
             THEN ExplicitScan(s[Len(s) - Len(m.rest)], m.rest,
                               IF m.eye = <<"R", "E">>
                               THEN [found EXCEPT !.reValue = Some(m.value)]
                               ELSE [found EXCEPT !.leValue = Some(m.value)])
             ELSE ExplicitScan(Head(s), Tail(s), found)

\* /\bcmt\s+(\d+)\s*(?:µm|um|mm)?/gi tried at the head of s
CmtAt(prev, s) ==
    LET a == SubSeq(s, 4, Len(s))
        b == TrimStart(a)
        e == SkipDigits(b)
        f == TrimStart(e)
        u == UnitLength(f, FALSE)
    IN  IF /\ ~IsWordChar(prev) /\ BeginsWith(s, <<"C", "M", "T">>)
           /\ a # <<>> /\ IsSpace(Head(a))
           /\ b # <<>> /\ IsDigit(Head(b))
        THEN [ok |-> TRUE, value |-> SubSeq(b, 1, Len(b) - Len(e)),
              rest |-> SubSeq(f, u + 1, Len(f))]
        ELSE NoMatch

RECURSIVE CmtScan(_, _)
CmtScan(prev, s) ==
    IF s = <<>> THEN <<>>
    ELSE LET m == CmtAt(prev, s)
         IN  IF m.ok
             THEN <<m.value>> \o CmtScan(s[Len(s) - Len(m.rest)], m.rest)
             ELSE CmtScan(Head(s), Tail(s))

\* /Foveal\s+Thickness\s*[-:;,]?\s*(\d+\s*(?:µm|um|mm|Mm|M)?)/gi tried at the
\* head of s
FovealAt(s) ==
    LET a == SubSeq(s, 7, Len(s))
        b == TrimStart(a)
    IN  IF /\ BeginsWith(s, <<"F", "O", "V", "E", "A", "L">>)
           /\ a # <<>> /\ IsSpace(Head(a))
           /\ BeginsWith(b, <<"T", "H", "I", "C", "K", "N", "E", "S", "S">>)
        THEN ValueAt(SubSeq(b, 10, Len(b)), FALSE)
        ELSE NoMatch

RECURSIVE FovealScan(_)
FovealScan(s) ==
    IF s = <<>> THEN <<>>
    ELSE LET m == FovealAt(s)
         IN  IF m.ok THEN <<m.value>> \o FovealScan(m.rest)
             ELSE FovealScan(Tail(s))

\* text.trim().replace(/\s+/g, " ")
noteNorm(t) == CollapseSpaces(Trim(t))

\* reValue and leValue after the explicit pattern
LabelledSides(t) == ExplicitScan("", noteNorm(t), [reValue |-> None, leValue |-> None])

\* [...cmtMatches, ...fovealMatches]
allMatches(t) == CmtScan("", noteNorm(t)) \o FovealScan(noteNorm(t))

RECURSIVE OnlyDigits(_)
OnlyDigits(s) ==
    IF s = <<>> THEN <<>>
    ELSE IF IsDigit(Head(s)) THEN <<Head(s)>> \o OnlyDigits(Tail(s))
    ELSE OnlyDigits(Tail(s))

UpperLimit == 1500

\* parseValue: the digits of the value as an integer, null beyond 1500
parseValue(val) ==
    IF ~val.some \/ val.v = <<>> THEN Null
    ELSE LET numericStr == OnlyDigits(val.v)
         IN  IF numericStr = <<>> \/ DigitsValue(numericStr, 0) > UpperLimit
             THEN Null
             ELSE Number(DigitsValue(numericStr, 0))

NoThickness == [RE |-> Null, LE |-> Null]

\* The variant that hands a single generic match to nobody
ResolveSidesNoBroadcast(labelled, all) ==
    LET re == labelled.reValue
        le == labelled.leValue
    IN  IF ~re.some /\ ~le.some /\ Len(all) >= 2
        THEN [reValue |-> Some(all[1]), leValue |-> Some(all[2])]
        ELSE labelled

\* The if / else if chain over reValue, leValue and allMatches
ResolveSides(labelled, all) ==
    LET re == labelled.reValue
        le == labelled.leValue
    IN  IF re.some /\ le.some THEN labelled
        ELSE IF re.some /\ ~le.some /\ Len(all) = 1
        THEN [labelled EXCEPT !.leValue = Some(all[1])]
        ELSE IF ~re.some /\ le.some /\ Len(all) = 1
        THEN [labelled EXCEPT !.reValue = Some(all[1])]
        ELSE IF ~re.some /\ ~le.some /\ Len(all) >= 2
        THEN [reValue |-> Some(all[1]), leValue |-> Some(all[2])]
        ELSE IF ~re.some /\ ~le.some /\ Len(all) = 1
        THEN [reValue |-> Some(all[1]), leValue |-> Some(all[1])]
        ELSE labelled

extractCMTFromText(t) ==
    IF t = <<>> \/ ToLowerCase(t) \in {<<"n", "o", "n", "e">>, <<"n", "a", "n">>, <<"n", "o", " ", "d", "a", "t", "a">>}
    THEN NoThickness
    ELSE LET sides == ResolveSides(LabelledSides(t), allMatches(t))
         IN  [RE |-> parseValue(sides.reValue), LE |-> parseValue(sides.leValue)]

\* The pieces a report text is put together from
CMTFragments ==
    { <<"R", "E", " ", "2", "5", "0", "u", "m">>, <<"L", "E", ":", " ", "3", "0", "0">>, <<"l", "e", " ", ",", "'", "3", "2", "0", " ", "M">>, <<"C", "M", "T", " ", "2", "8", "0">>, <<"c", "m", "t", " ", "3", "1", "0", " ", "u", "m">>,
      <<"F", "o", "v", "e", "a", "l", " ", "T", "h", "i", "c", "k", "n", "e", "s", "s", " ", "-", " ", "2", "9", "0">>, <<"C", "M", "T", " ", "1", "6", "0", "0">>, <<"O", "C", "T", " ", "d", "o", "n", "e">>, <<"R", "E", " ", "1", "7", "0", "0">> }

MaxFragments == 3

RECURSIVE JoinFragments(_)
JoinFragments(fs) ==
    IF fs = <<>> THEN <<>>
    ELSE IF Len(fs) = 1 THEN fs[1]
    ELSE fs[1] \o <<" ">> \o JoinFragments(Tail(fs))

\* Report texts: up to MaxFragments pieces, and texts the patterns must reject
\* or normalise
CMTTexts ==
    { JoinFragments(fs) : fs \in UNION { [1..n -> CMTFragments] : n \in 0..MaxFragments } }
    \cup { <<"R", "E", " ", "2", "5", "0", "u", "m", " ", "L", "E", " ", "3", "0", "0", "u", "m">>,
           <<"n", "o", "n", "e">>, <<"N", "a", "N">>, <<"N", "o", " ", "D", "a", "t", "a">>, <<"N", "O", "N", "E">>, <<" ", "n", "o", "n", "e">>, <<" ", " ", "C", "M", "T", " ", " ", " ", "2", "8", "0", " ", " ">>,
           <<"C", "M", "T", "2", "8", "0">>, <<"R", "E", "2", "5", "0">>, <<"C", "A", "R", "E", " ", "2", "5", "0", " ", "C", "M", "T", " ", "2", "8", "0">>, <<"R", "E", "D", " ", "2", "5", "0">>, <<"C", "M", "T", " ", "R", "E", " ", "2", "5", "0">>,
           <<"s", "c", "m", "t", " ", "2", "8", "0">>, <<"F", "o", "v", "e", "a", "l", " ", "T", "h", "i", "c", "k", "n", "e", "s", "s", ":", "2", "9", "5", "u", "m">>, <<"F", "o", "v", "e", "a", "l", "T", "h", "i", "c", "k", "n", "e", "s", "s", " ", "2", "9", "5">>,
           <<"R", "E", " ", "\"", "2", "5", "5">>, <<"C", "M", "T", " ", "0">>, <<"L", "E", " ", "1", "5", "0", "0", " ", "C", "M", "T", " ", "1", "5", "0", "1">> }

CallExtractCMTFromText ==
    /\ pc = "idle"
    /\ fn = "extractCMTFromText"
    /\ pc' = "done"
    /\ result' = extractCMTFromText(text)
    /\ UNCHANGED <<serviceVars, pageVars, visits, text, fn, section, eyeIndex,
                   locals, colorVars>>

-----
(* classifyProcedureType called on its own *)

\* The words a procedure name is put together from
NameWords ==
    { <<"A", "v", "a", "s", "t", "i", "n">>, <<"I", "V", "T">>, <<"L", "a", "s", "e", "r">>, <<"P", "R", "P">>, <<"V", "i", "t", "r", "e", "c", "t", "o", "m", "y">>, <<"P", "P", "V">>, <<"E", "n", "d", "o", "l", "a", "s", "e", "r">>,
      <<"C", "a", "t", "a", "r", "a", "c", "t">>, <<"Y", "A", "G">>, <<"i", "n", "j">> }

MaxNameWords == 2

\* Procedure names: up to MaxNameWords words, and names in other letter cases
\* or with blanks around them
ProcedureNames ==
    { JoinFragments(ws) : ws \in UNION { [1..n -> NameWords] : n \in 0..MaxNameWords } }
    \cup { <<" ", "A", "V", "A", "S", "T", "I", "N", " ">>, <<"f", "o", "c", "a", "l", " ", "L", "A", "S", "E", "R">>, <<"P", "a", "r", "s", " ", "P", "l", "a", "n", "a", " ", "V", "i", "t", "r", "e", "c", "t", "o", "m", "y">>, <<"G", "a", "s", " ", "T", "a", "m", "p", "o", "n", "a", "d", "e">>,
           <<"P", "h", "a", "c", "o">>, <<"p", "r", "p", " ", "+", " ", "a", "v", "a", "s", "t", "i", "n">> }

CallClassifyProcedureType ==
    /\ pc = "idle"
    /\ fn = "classifyProcedureType"
    /\ pc' = "done"
    /\ result' = classifyProcedureType(text)
    /\ UNCHANGED <<serviceVars, pageVars, visits, text, fn, section, eyeIndex,
                   locals, colorVars>>

-----------------------------------------------------------------------------
(* getLineChartData *)

\* The events getProceduresFromNewFormatForChart pushes for one visit;
\* acc = [events, map, index]
RECURSIVE ChartNewFormat(_, _, _)
ChartNewFormat(acc, procs, date) ==
    IF procs = <<>> THEN acc
    ELSE LET proc == Head(procs)
             r == getProcedureColor([map |-> acc.map, index |-> acc.index],
                                    proc.name)
             type == IF proc.field = "Las" THEN ToLowerCase(LASER)
                     ELSE IF proc.field = "inj" THEN ToLowerCase(INJECTION)
                     ELSE ToLowerCase(SURGERY)
         IN  ChartNewFormat(
                [events |-> Append(acc.events,
                                   [date |-> date, type |-> type,
                                    name |-> proc.name, color |-> r.color]),
                 map |-> r.map, index |-> r.index],
                Tail(procs), date)

\* The events of a legacy-shape visit: flattened.forEach over actProcs[eyeIndex]
RECURSIVE ChartLegacy(_, _, _)
ChartLegacy(acc, procs, date) ==
    IF procs = <<>> THEN acc
    ELSE LET proc == Head(procs)
         IN  IF proc # <<>> /\ Trim(proc) # <<>> /\ ~isProcedurePlaceholder(proc)
             THEN LET name == Trim(proc)
                      r == getProcedureColor([map |-> acc.map,
                                              index |-> acc.index], name)
                  IN  ChartLegacy(
                        [events |-> Append(acc.events,
                            [date |-> date,
                             type |-> ToLowerCase(classifyProcedureType(name)),
                             name |-> name, color |-> r.color]),
                         map |-> r.map, index |-> r.index],
                        Tail(procs), date)
             ELSE ChartLegacy(acc, Tail(procs), date)

\* actProcs[eyeIndex], flattened, when it is an array
ChartActStrings(pr, eye) ==
    IF pr.act = Undef THEN <<>>
    ELSE IF eye + 1 <= Len(pr.act.a) /\ pr.act.a[eye + 1] # Null
    THEN flattenProcedureArray(pr.act.a[eye + 1].a)
    ELSE <<>>

\* visit.vi and its per-eye entries; an absent va or ucva is <<>> (as falsy
\* as "")
VisionData(va, ucva) == [t |-> "obj", va |-> va, ucva |-> ucva]
Vi(dist, nr) == [t |-> "obj", dist |-> dist, nr |-> nr]

\* visit.inv and its special-investigation report
Sp(r) == [t |-> "obj", r |-> r]
Inv(iop, sp) == [t |-> "obj", iop |-> iop, sp |-> sp]

VisitSeries(d, vi, inv) == [Visit(d) EXCEPT !.vi = vi, !.inv = inv]

\* list[eyeIndex] of an optional array: Undef when there is none
EyeEntry(list, eye) ==
    IF list # Undef /\ list.t = "arr" /\ eye + 1 <= Len(list.a)
    THEN list.a[eye + 1]
    ELSE Undef

IsObject(v) == v # Undef /\ v # Null

\* dvVA: the expanded distance acuity of the eye, <<>> for null
DistanceAcuity(vi, eye) ==
    LET distData == EyeEntry(vi.dist, eye)
        rawVA == IF ~IsObject(distData) THEN <<>>
                 ELSE IF distData.va # <<>> THEN distData.va
                 ELSE distData.ucva
    IN  IF rawVA # <<>> THEN decompressVision(rawVA) ELSE <<>>

\* nvVA: the expanded near acuity of the eye, or null
NearAcuity(vi, eye) ==
    LET nrData == EyeEntry(vi.nr, eye)
    IN  IF IsObject(nrData) /\ nrData.va # <<>>
        THEN Str(decompressVision(nrData.va))
        ELSE Null

\* What the visit pushes on visualAcuityData: nothing or one point
AcuityPoints(visit, eye) ==
    IF visit.vi = Undef THEN <<>>
    ELSE LET dvVA == DistanceAcuity(visit.vi, eye)
         IN  IF dvVA # <<>> /\ convertVAToNumeric(dvVA) # Null
             THEN << [x |-> visit.d, y |-> dvVA,
                      yNumeric |-> convertVAToNumeric(dvVA),
                      nv |-> NearAcuity(visit.vi, eye)] >>
             ELSE <<>>

NotMeasurable == <<"N", "o", "t", " ", "M", "e", "a", "s", "u", "r", "a", "b", "l", "e">>

\* iopValue in tenths, or null
PressureValue(iop, eye) ==
    IF iop.t = "arr"
    THEN LET iopStr == IF eye + 1 <= Len(iop.a) THEN iop.a[eye + 1] ELSE <<>>
         IN  IF iopStr # <<>> /\ iopStr # NotMeasurable THEN parseFloat(iopStr)
             ELSE Null
    ELSE IF iop.s # NotMeasurable THEN parseFloat(iop.s)
    ELSE Null

\* A variant that takes every pressure reading that is a number
PressurePointsUnchecked(visit, eye) ==
    IF visit.inv = Undef \/ visit.inv.iop = Undef
       \/ (visit.inv.iop.t = "str" /\ visit.inv.iop.s = <<>>)
    THEN <<>>
    ELSE LET iopValue == PressureValue(visit.inv.iop, eye)
         IN  IF iopValue # Null /\ iopValue # NaN
             THEN << [x |-> visit.d, y |-> iopValue] >>
             ELSE <<>>

\* What the visit pushes on iopData
PressurePoints(visit, eye) ==
    IF visit.inv = Undef \/ visit.inv.iop = Undef
       \/ (visit.inv.iop.t = "str" /\ visit.inv.iop.s = <<>>)
    THEN <<>>
    ELSE LET iopValue == PressureValue(visit.inv.iop, eye)
         IN  IF iopValue # Null /\ iopValue # NaN /\ iopValue.n > 0
             THEN << [x |-> visit.d, y |-> iopValue] >>
             ELSE <<>>

\* The variant that gives the RE result to every selector but 1
ThicknessSidePrimaryUnlessLeft(cmtValues, eye) ==
    IF eye = 1 THEN cmtValues.LE ELSE cmtValues.RE

\* eyeIndex === 0 ? cmtValues.RE : cmtValues.LE
ThicknessSide(cmtValues, eye) ==
    IF eye = 0 THEN cmtValues.RE ELSE cmtValues.LE

\* What the visit pushes on cmtData
ThicknessPoints(visit, eye) ==
    IF visit.inv = Undef \/ visit.inv.sp = Undef \/ visit.inv.sp.r = <<>>
    THEN <<>>
    ELSE LET cmtValue == ThicknessSide(extractCMTFromText(visit.inv.sp.r), eye)
         IN  IF cmtValue # Null THEN << [x |-> visit.d, y |-> cmtValue] >>
             ELSE <<>>

\* The part of the visits.forEach callback that extracts the procedures;
\* acc = [events, map, index, threw]
ChartProcedures(acc, visit, eye) ==
    IF acc.threw \/ visit.d = 0 THEN acc
    ELSE IF visit.pr # Undef /\ isNewProcedureFormatThrows(visit.pr)
    THEN [acc EXCEPT !.threw = TRUE]
    ELSE LET a == [events |-> acc.events, map |-> acc.map, index |-> acc.index]
             b == IF visit.pr = Undef THEN a
                  ELSE IF isNewProcedureFormat(visit.pr)
                  THEN ChartNewFormat(a, NewFormatProcs(visit.pr, eye), visit.d)
                  ELSE ChartLegacy(a, ChartActStrings(visit.pr, eye), visit.d)
         IN  [events |-> b.events, map |-> b.map, index |-> b.index,
              threw |-> FALSE]

\* The procedure part of visits.forEach from the first visit on
RECURSIVE ChartProcedureVisits(_, _, _)
ChartProcedureVisits(acc, vs, eye) ==
    IF vs = <<>> THEN acc
    ELSE CHOOSE out \in { ChartProcedureVisits(next, Tail(vs), eye) :
                             next \in {ChartProcedures(acc, Head(vs), eye)} } : TRUE

\* The visits.forEach callback; acc = [events, map, index, threw, va, iop, cmt]
ChartVisit(acc, visit, eye) ==
    IF acc.threw \/ visit.d = 0 THEN acc
    ELSE CHOOSE out \in
            { IF p.threw THEN [acc EXCEPT !.threw = TRUE]
              ELSE [events |-> p.events, map |-> p.map, index |-> p.index,
                    threw |-> FALSE,
                    va |-> acc.va \o AcuityPoints(visit, eye),
                    iop |-> acc.iop \o PressurePoints(visit, eye),
                    cmt |-> acc.cmt \o ThicknessPoints(visit, eye)] :
              p \in { ChartProcedures([events |-> acc.events, map |-> acc.map,
                                        index |-> acc.index, threw |-> FALSE],
                                       visit, eye) } } : TRUE

\* visits.forEach from the first visit on: the accumulator after each visit
\* is a value of its own
RECURSIVE ChartVisits(_, _, _)
ChartVisits(acc, vs, eye) ==
    IF vs = <<>> THEN acc
    ELSE CHOOSE out \in { ChartVisits(next, Tail(vs), eye) :
                             next \in {ChartVisit(acc, Head(vs), eye)} } : TRUE

CallGetLineChartData ==
    /\ pc = "idle"
    /\ fn = "getLineChartData"
    /\ \E e \in 0..2 :
         \E r \in { ChartVisits([events |-> <<>>, map |-> procedureColorMap,
                                  index |-> colorIndex, threw |-> FALSE,
                                  va |-> <<>>, iop |-> <<>>, cmt |-> <<>>],
                                 visits, e) } :
             /\ eyeIndex' = e
             /\ procedureColorMap' = r.map
             /\ colorIndex' = r.index
             /\ IF r.threw
                THEN pc' = "threw" /\ result' = result
                ELSE /\ pc' = "done"
                     /\ result' = [procedures |-> r.events,
                                   visualAcuityData |-> r.va,
                                   iopData |-> r.iop, cmtData |-> r.cmt]
    /\ UNCHANGED <<serviceVars, pageVars, visits, text, fn, section, locals,
                   lastCall, resetSeen, given, requested>>

\* vi blocks of the series records
ViBlocks ==
    { Vi(Arr(<<VisionData(<<"6", "1", "8", "P">>, <<>>), VisionData(<<>>, <<"6", "6">>), VisionData(<<"c", "f">>, <<"6", "/", "6">>)>>),
         Arr(<<VisionData(<<"N", "6">>, <<>>), VisionData(<<>>, <<>>), Null>>)),
      Vi(Arr(<<VisionData(<<"F", "C", "M", "F">>, <<>>), Null, VisionData(<<"0", "/", "6">>, <<>>)>>), Undef),
      Vi(Arr(<<VisionData(<<>>, <<>>)>>), Arr(<<VisionData(<<"N", "6">>, <<>>)>>)) }

\* Report texts of the series records
Reports == { <<"C", "M", "T", " ", "2", "8", "0">>, <<"n", "o", "n", "e">>, <<"L", "E", " ", "1", "6", "0", "0", " ", "R", "E", " ", "0">> }

\* inv blocks of the series records
InvBlocks ==
    { Inv(Str(<<"1", "4">>), Undef),
      Inv(Arr(<<<<"1", "4", ".", "5">>, NotMeasurable>>), Sp(<<>>)),
      Inv(Arr(<<<<"0">>, <<"a", "b", "c">>, <<"1", "6">>>>), Sp(<<"R", "E", " ", "2", "5", "0", "u", "m", " ", "L", "E", " ", "3", "0", "0", "u", "m">>)),
      Inv(Str(NotMeasurable), Sp(<<"R", "E", " ", "2", "5", "0", "u", "m">>)) }
    \cup { Inv(Undef, Sp(r)) : r \in Reports }

\* The visits of the series records dated d: a vi block, an inv block, a
\* legacy procedure block beside a report, or data under a missing date
SeriesVisits(d) ==
    { VisitSeries(d, vi, Undef) : vi \in ViBlocks }
    \cup { VisitSeries(d, Undef, inv) : inv \in InvBlocks }
    \cup { VisitSeries(0, Vi(Arr(<<VisionData(<<"6", "6">>, <<>>)>>), Undef), Inv(Str(<<"1", "4">>), Sp(<<"C", "M", "T", " ", "2", "8", "0">>))),
           [VisitSeries(d, Undef, Inv(Undef, Sp(<<"L", "E", ":", " ", "3", "0", "0">>)))
               EXCEPT !.pr = Legacy(Arr(<<Str(Avastin)>>), Arr(<<>>))] }

MaxSeriesVisits == 2

-----------------------------------------------------------------------------

(* patient-data.service: patientCache and its loaders *)

\* The uids of the patients
Patients == {"A", "B"}

\* Most loader calls waiting for their fetch at one time
MaxInFlight == 2

\* A loader call waiting at `await fetch(...)`.  stale: clearCache has run
\* since the call began.  live: the page that made the call is still mounted.
\* Calls that agree in all of this are one element of inFlight.
Fetch(u, loader) == [uid |-> u, loader |-> loader, stale |-> FALSE, live |-> TRUE]

\* dbData.jsonData of the response to the call f
Fetched(f) == [of |-> f.uid, stale |-> f.stale]

\* patientCache.set(uid, patientData)
CacheSet(cache, u, data) ==
    [k \in DOMAIN cache \cup {u} |-> IF k = u THEN data ELSE cache[k]]

\* The cache after the fetch of the call f has resolved with data
CacheAfter(cache, f) == CacheSet(cache, f.uid, Fetched(f))

\* loadPatientByUID(uid) up to its return or its await
LoadPatientByUID ==
    /\ fn = "patient-data.service"
    /\ \E u \in Patients :
         IF u \in DOMAIN patientCache
         THEN /\ lastLoad' = [op |-> "cached", uid |-> u, data |-> patientCache[u]]
              /\ UNCHANGED inFlight
         ELSE /\ Cardinality(inFlight) < MaxInFlight
              /\ inFlight' = inFlight \cup {Fetch(u, "loadPatientByUID")}
              /\ lastLoad' = [op |-> "fetch", uid |-> u]
    /\ UNCHANGED <<pageVars, visits, text, fn, section, eyeIndex, pc, locals,
                   result, colorVars, patientCache>>

\* loadPatientWithClinicalSummary(uid) up to its await: it never reads the
\* cache
LoadPatientWithClinicalSummary ==
    /\ fn = "patient-data.service"
    /\ Cardinality(inFlight) < MaxInFlight
    /\ \E u \in Patients :
         inFlight' = inFlight \cup {Fetch(u, "loadPatientWithClinicalSummary")}
    /\ UNCHANGED <<pageVars, visits, text, fn, section, eyeIndex, pc, locals,
                   result, colorVars, patientCache, lastLoad>>

\* The rest of a loader call: the response is read and, when it is good, the
\* data is cached and returned; otherwise null is returned
FetchResolves ==
    /\ fn = "patient-data.service"
    /\ \E f \in inFlight, ok \in BOOLEAN :
         /\ inFlight' = inFlight \ {f}
         /\ patientCache' = IF ok THEN CacheAfter(patientCache, f) ELSE patientCache
    /\ UNCHANGED <<pageVars, visits, text, fn, section, eyeIndex, pc, locals,
                   result, colorVars, lastLoad>>

\* clearCache(): the calls that wait have begun before it
clearCache ==
    /\ fn = "patient-data.service"
    /\ patientCache' = EmptyMap
    /\ inFlight' = {[f EXCEPT !.stale = TRUE] : f \in inFlight}
    /\ lastLoad' = [op |-> "clear"]
    /\ UNCHANGED <<pageVars, visits, text, fn, section, eyeIndex, pc, locals,
                   result, colorVars>>

-----------------------------------------------------------------------------
(* PatientDetailPage: the load effect, the eye effect and the useMemo *)

\* The record the API serves for each uid: one visit with legacy procedures
\* of the right and of the left eye
PatientRecords ==
    [u \in Patients |->
        IF u = "A"
        THEN <<VisitPr(1, Legacy(Arr(<<Str(Avastin)>>), Arr(<<Str(PRP)>>)))>>
        ELSE <<VisitPr(1, Legacy(Arr(<<Str(YAG)>>), Arr(<<Str(VITRECTOMY)>>)))>>]

\* selectedEye === "RE" ? 0 : selectedEye === "LE" ? 1 : 2
EyeIndexOf(eye) == IF eye = "RE" THEN 0 ELSE IF eye = "LE" THEN 1 ELSE 2

\* The useMemo callback on a render whose dependencies have changed: null
\* without patientData; otherwise the procedure events of getLineChartData
\* and the colours it hands out (the other extractors of the callback ask for
\* none).  why is what changed.
Recompute(data, eye, why) ==
    IF data = Null
    THEN /\ computedData' = Null
         /\ UNCHANGED <<procedureColorMap, colorIndex>>
    ELSE \E record \in {PatientRecords[data.of]}, e \in {EyeIndexOf(eye)} :
         \E r \in { ChartProcedureVisits(
                        [events |-> <<>>, map |-> procedureColorMap,
                         index |-> colorIndex, threw |-> FALSE], record, e) } :
            /\ computedData' = [of |-> data.of, eye |-> eye, why |-> why,
                                procedures |-> r.events]
            /\ procedureColorMap' = r.map
            /\ colorIndex' = r.index

\* The same after resetProcedureColors() has run in the load effect
RecomputeAfterReset(data, eye, why) ==
    \E record \in {PatientRecords[data.of]}, e \in {EyeIndexOf(eye)} :
    \E r \in { ChartProcedureVisits(
                   [events |-> <<>>, map |-> EmptyMap, index |-> 0,
                    threw |-> FALSE], record, e) } :
        /\ computedData' = [of |-> data.of, eye |-> eye, why |-> why,
                            procedures |-> r.events]
        /\ procedureColorMap' = r.map
        /\ colorIndex' = r.index

\* The route changes to another uid and the load effect runs: setLoading(true),
\* resetProcedureColors(), loadPatientByUID(uid).  The router either keeps the
\* mounted page, whose state stays, or mounts a new one (remount), whose state
\* is the initial one; the waiting calls of an unmounted page set no state.
\* A uid in the cache is returned without a fetch, and setPatientData and
\* setLoading(false) follow before any other event.
Navigate ==
    /\ fn = "PatientDetailPage"
    /\ \E u \in Patients \ {uid}, remount \in BOOLEAN :
         LET kept == IF remount THEN Null ELSE patientData
             eye == IF remount THEN "RE" ELSE selectedEye
             waiting == IF remount
                        THEN {[f EXCEPT !.live = FALSE] : f \in inFlight}
                        ELSE inFlight
         IN  /\ uid' = u
             /\ selectedEye' = eye
             /\ IF u \in DOMAIN patientCache
                THEN /\ inFlight' = waiting
                     /\ lastLoad' = [op |-> "cached", uid |-> u,
                                     data |-> patientCache[u]]
                     /\ patientData' = patientCache[u]
                     /\ loading' = FALSE
                     /\ IF patientCache[u] # kept
                        THEN RecomputeAfterReset(patientCache[u], eye, "data")
                        ELSE /\ procedureColorMap' = EmptyMap
                             /\ colorIndex' = 0
                             /\ computedData' = computedData
                ELSE /\ Cardinality(waiting) < MaxInFlight
                     /\ inFlight' = waiting \cup {Fetch(u, "loadPatientByUID")}
                     /\ lastLoad' = [op |-> "fetch", uid |-> u]
                     /\ patientData' = kept
                     /\ loading' = TRUE
                     /\ procedureColorMap' = EmptyMap
                     /\ colorIndex' = 0
                     /\ computedData' = IF remount THEN Null ELSE computedData
    /\ UNCHANGED <<visits, text, fn, section, eyeIndex, pc, locals, result,
                   patientCache, lastCall, resetSeen, given, requested>>

\* The fetch of a waiting loadPatientByUID call resolves: the data is cached
\* when the response is good, and loadData goes on with setPatientData(data)
\* and setLoading(false) if its page is still mounted
PageLoadResolves ==
    /\ fn = "PatientDetailPage"
    /\ \E f \in inFlight, ok \in BOOLEAN :
         LET data == IF ok THEN Fetched(f) ELSE Null
         IN  /\ inFlight' = inFlight \ {f}
             /\ patientCache' = IF ok THEN CacheAfter(patientCache, f)
                                ELSE patientCache
             /\ IF f.live
                THEN /\ patientData' = data
                     /\ loading' = FALSE
                     /\ IF ok \/ patientData # Null
                        THEN Recompute(data, selectedEye, "data")
                        ELSE UNCHANGED <<computedData, procedureColorMap,
                                         colorIndex>>
                ELSE UNCHANGED <<patientData, loading, computedData,
                                 procedureColorMap, colorIndex>>
    /\ UNCHANGED <<visits, text, fn, section, eyeIndex, pc, locals, result,
                   lastLoad, uid, selectedEye, lastCall, resetSeen, given,
                   requested>>

\* onClick of an eye button; the buttons are rendered when the page is not
\* loading and has data
SelectEye ==
    /\ fn = "PatientDetailPage"
    /\ ~loading
    /\ patientData # Null
    /\ \E eye \in {"RE", "LE", "BE"} \ {selectedEye} :
         /\ selectedEye' = eye
         /\ Recompute(patientData, eye, "eye")
    /\ UNCHANGED <<serviceVars, visits, text, fn, section, eyeIndex, pc, locals,
                   result, uid, patientData, loading, lastCall, resetSeen,
                   given, requested>>

\* The eye effect: the search parameters change to eye=LE or eye=BE
EyeParam ==
    /\ fn = "PatientDetailPage"
    /\ \E eye \in {"LE", "BE"} \ {selectedEye} :
         /\ selectedEye' = eye
         /\ Recompute(patientData, eye, "eye")
    /\ UNCHANGED <<serviceVars, visits, text, fn, section, eyeIndex, pc, locals,
                   result, uid, patientData, loading, lastCall, resetSeen,
                   given, requested>>

-----------------------------------------------------------------------------
\* The service has loaded nothing and no call is waiting
NoService ==
    /\ patientCache = EmptyMap
    /\ inFlight = {}
    /\ lastLoad = [op |-> "none"]

\* No page is mounted
NoPage ==
    /\ uid = ""
    /\ patientData = Null
    /\ loading = FALSE
    /\ selectedEye = "RE"
    /\ computedData = Null

\* No call has begun: the locals are unset and the module state is fresh
NoCall ==
    /\ eyeIndex = 0
    /\ pc = "idle"
    /\ sortedVisits = <<>>
    /\ index = 0
    /\ currentCondition = None
    /\ conditionStart = 0
    /\ conditionMap = EmptyMap
    /\ diagMap = EmptyMap
    /\ diagTracker = EmptyMap
    /\ result = {}
    /\ procedureColorMap = EmptyMap
    /\ colorIndex = 0
    /\ lastCall = [op |-> "none"]
    /\ resetSeen = FALSE
    /\ given = EmptyMap
    /\ requested = <<>>
    /\ NoService
    /\ NoPage

Idle == text = <<>> /\ NoCall

\* Records with observation data, for getGanttData(patientData, "lens", eye)
InitGantt ==
    /\ \E k \in 0..MaxVisits :
         \E ds \in DateSeqs(k), as \in AtSeqs(k) :
            visits = [i \in 1..k |-> VisitAt(ds[i], as[i])]
    /\ fn = "getGanttData"
    /\ section = "lens"
    /\ Idle

\* Records with diagnosis data, for getGanttData(patientData, "diagnosis", eye)
InitDiag ==
    /\ \E k \in 0..MaxVisits :
         \E ds \in DateSeqs(k), gs \in DiagSeqs(k) :
            visits = [i \in 1..k |-> VisitDiag(ds[i], gs[i])]
    /\ fn = "getGanttData"
    /\ section = "diagnosis"
    /\ Idle

\* Records with procedure blocks, in date order, for getProcedures
InitProc ==
    /\ \E k \in 0..MaxProcVisits :
         \E ps \in [1..k -> {Undef} \cup LegacyPr \cup CurrentPr] :
            visits = [i \in 1..k |-> VisitPr(i, ps[i])]
    /\ fn = "getProcedures"
    /\ section = ""
    /\ Idle

\* Records with medications, for getMedicationsGanttData
InitMed ==
    /\ \E k \in 0..MaxVisits :
         \E ds \in DateSeqs(k), ms \in [1..k -> MedLists] :
            visits = [i \in 1..k |-> VisitMeds(ds[i], ms[i])]
    /\ fn = "getMedicationsGanttData"
    /\ section = ""
    /\ Idle

\* Records with procedure blocks, in date order, for getLineChartData
InitChart ==
    /\ \E k \in 0..MaxProcVisits :
         \E ps \in [1..k -> {Undef} \cup LegacyPr \cup CurrentPr] :
            visits = [i \in 1..k |-> VisitPr(i, ps[i])]
    /\ fn = "getLineChartData"
    /\ section = ""
    /\ Idle

\* Records with acuity, pressure and report data, in date order, for
\* getLineChartData
InitSeries ==
    /\ \E k \in 0..MaxSeriesVisits :
         \E vs \in [1..k -> SeriesVisits(1)] :
            visits = [i \in 1..k |-> IF vs[i].d = 0 THEN vs[i]
                                     ELSE [vs[i] EXCEPT !.d = i]]
    /\ fn = "getLineChartData"
    /\ section = ""
    /\ Idle

\* A session of colour calls
InitColors ==
    /\ visits = <<>>
    /\ fn = "colors"
    /\ section = ""
    /\ Idle

\* An acuity text, for decompressVision or convertVAToNumeric
InitVision ==
    /\ visits = <<>>
    /\ text \in VisionTexts
    /\ fn \in {"decompressVision", "convertVAToNumeric"}
    /\ section = ""
    /\ NoCall

\* A report text, for extractCMTFromText
InitCMT ==
    /\ visits = <<>>
    /\ text \in CMTTexts
    /\ fn = "extractCMTFromText"
    /\ section = ""
    /\ NoCall

\* A procedure name, for classifyProcedureType
InitClassify ==
    /\ visits = <<>>
    /\ text \in ProcedureNames
    /\ fn = "classifyProcedureType"
    /\ section = ""
    /\ NoCall

\* The service before any call
InitService ==
    /\ visits = <<>>
    /\ text = <<>>
    /\ fn = "patient-data.service"
    /\ section = ""
    /\ NoCall

\* The page mounted on a uid, after its first load effect: the colours are
\* reset and loadPatientByUID waits for its fetch
InitPage ==
    /\ visits = <<>>
    /\ text = <<>>
    /\ fn = "PatientDetailPage"
    /\ section = ""
    /\ eyeIndex = 0
    /\ pc = "idle"
    /\ sortedVisits = <<>>
    /\ index = 0
    /\ currentCondition = None
    /\ conditionStart = 0
    /\ conditionMap = EmptyMap
    /\ diagMap = EmptyMap
    /\ diagTracker = EmptyMap
    /\ result = {}
    /\ procedureColorMap = EmptyMap
    /\ colorIndex = 0
    /\ lastCall = [op |-> "none"]
    /\ resetSeen = FALSE
    /\ given = EmptyMap
    /\ requested = <<>>
    /\ patientCache = EmptyMap
    /\ uid \in Patients
    /\ inFlight = {Fetch(uid, "loadPatientByUID")}
    /\ lastLoad = [op |-> "fetch", uid |-> uid]
    /\ patientData = Null
    /\ loading = TRUE
    /\ selectedEye = "RE"
    /\ computedData = Null

Init ==
    \/ InitGantt \/ InitDiag \/ InitProc \/ InitMed \/ InitChart \/ InitColors
    \/ InitVision \/ InitCMT \/ InitSeries \/ InitClassify
    \/ InitService \/ InitPage

NextGantt ==
    \/ GanttBegin \/ GanttStep \/ GanttEnd
    \/ DiagBegin \/ DiagStep \/ DiagEnd

NextVision == CallDecompressVision \/ CallConvertVAToNumeric

NextColors == CallGetProcedureColor \/ resetProcedureColors

NextService ==
    \/ LoadPatientByUID \/ LoadPatientWithClinicalSummary \/ FetchResolves
    \/ clearCache

NextPage == Navigate \/ PageLoadResolves \/ SelectEye \/ EyeParam

Next ==
    \/ NextGantt
    \/ CallGetProcedures
    \/ CallGetMedicationsGanttData
    \/ CallGetLineChartData
    \/ NextColors
    \/ NextVision
    \/ CallExtractCMTFromText
    \/ CallClassifyProcedureType
    \/ NextService
    \/ NextPage

SpecColors == InitColors /\ [][NextColors]_vars

SpecGantt == (InitGantt \/ InitDiag) /\ [][NextGantt]_vars

SpecProc == InitProc /\ [][CallGetProcedures]_vars

SpecVision == InitVision /\ [][NextVision]_vars

SpecChart == InitChart /\ [][CallGetLineChartData]_vars

SpecSeries == InitSeries /\ [][CallGetLineChartData]_vars

SpecCMT == InitCMT /\ [][CallExtractCMTFromText]_vars

SpecClassify == InitClassify /\ [][CallClassifyProcedureType]_vars

SpecService == InitService /\ [][NextService]_vars

SpecPage == InitPage /\ [][NextPage]_vars

SpecMed == InitMed /\ [][CallGetMedicationsGanttData]_vars

Spec == Init /\ [][Next]_vars

-----------------------------------------------------------------------------
(* Claims about getGanttData on an observation category *)

\* The visit of the record dated d (the dates of a record are distinct)
ByDate(d) == CHOOSE v \in {visits[i] : i \in DOMAIN visits} : v.d = d

NoValue == [k |-> "val", v |-> <<>>]

\* What the visit dated d records for the called category and eye: nothing at
\* all (the visit has no such block), or a normalized value, <<>> when blank
ObsAt(d) ==
    LET r == ResolveValue(ByDate(d), section, eyeIndex)
    IN  IF r = Skip THEN [k |-> "skip"]
        ELSE IF ~Truthy(r) THEN NoValue
        ELSE [k |-> "val", v |-> normalizeConditionName(r.s)]

Recorded(d) == ObsAt(d).k = "val"

\* The value of the run open when the visit dated d is reached, <<>> if none
OpenValue(d) ==
    LET seen == {e \in 1..(d - 1) : Recorded(e)}
    IN  IF seen = {} THEN <<>> ELSE ObsAt(Max(seen)).v

\* The date of the first visit of that run
RunFirst(d) ==
    Min({e \in 1..(d - 1) :
            /\ ObsAt(e) = [k |-> "val", v |-> OpenValue(d)]
            /\ \A m \in e..(d - 1) : Recorded(m) => ObsAt(m).v = OpenValue(d)})

InGantt == fn = "getGanttData" /\ section # "diagnosis"

ClearClearHazy ==
    <<VisitAt(1, At(Str(Clear))), VisitAt(2, At(Str(Clear))),
      VisitAt(3, At(Str(Hazy)))>>

ClearClearHazyIntervals ==
    { [task |-> Clear, start |-> 1, end |-> 2],
      [task |-> Hazy, start |-> 3, end |-> 3] }

RunClosedAtStep ==
    (InGantt /\ pc = "loop" /\ index' = index + 1) =>
        LET d == index + 1
            o == ObsAt(d)
            ov == OpenValue(d)
            first == RunFirst(d)
            prev == d - 1
        IN  (Recorded(d) /\ ov # <<>> /\ o.v # ov) =>
              /\ DOMAIN conditionMap' = DOMAIN conditionMap \cup {ov}
              /\ \A c \in DOMAIN conditionMap \ {ov} :
                    conditionMap'[c] = conditionMap[c]
              /\ conditionMap'[ov] =
                    IF ov \in DOMAIN conditionMap
                    THEN [start |-> Min({first, conditionMap[ov].start}),
                          end |-> Max({prev, conditionMap[ov].end})]
                    ELSE [start |-> first, end |-> prev]
              /\ o.v # <<>> =>
                    currentCondition' = Some(o.v) /\ conditionStart' = d
              /\ o.v = <<>> => ~Open(currentCondition', conditionStart')

\* C1: in getGanttData on an observation category, a visit whose value is
\* blank or differs from the open run's value closes the run from the date of
\* the run's first visit to the date of the visit just before this one, and a
\* differing non-blank value opens a run at this visit's date; Clear, Clear,
\* Hazy at three dates give exactly {Clear, 1st, 2nd} and {Hazy, 3rd, 3rd}.
C1_RunClosedAtPreviousVisit ==
    /\ [][RunClosedAtStep]_vars
    /\ [](InGantt /\ pc = "done" /\ visits = ClearClearHazy
            => result = ClearClearHazyIntervals)

C1_Witness ==
    /\ InGantt /\ pc = "done" /\ visits = ClearClearHazy
    /\ eyeIndex = 1
    /\ result = ClearClearHazyIntervals

\* The values recorded over the whole record
ValuesSeen ==
    {ObsAt(d).v : d \in {e \in 1..Len(visits) : Recorded(e)}} \ {<<>>}

FirstDate(v) == Min({d \in 1..Len(visits) : ObsAt(d) = [k |-> "val", v |-> v]})

\* The end of the last run of v: the date of the visit just before the next
\* visit that records something, or the record's last date
LastRunEnd(v) ==
    LET last == Max({d \in 1..Len(visits) : ObsAt(d) = [k |-> "val", v |-> v]})
        after == {d \in (last + 1)..Len(visits) : Recorded(d)}
    IN  IF after = {} THEN Len(visits) ELSE Min(after) - 1

\* C2: getGanttData returns one interval per distinct normalized value, from
\* the start of the value's first run to the end of its last run, also when
\* the value recurs after a gap: A, A, blank, A at four dates give {A, 1st, 4th}.
C2_OneIntervalPerValue ==
    (InGantt /\ pc = "done") =>
        result = {[task |-> v, start |-> FirstDate(v), end |-> LastRunEnd(v)] :
                    v \in ValuesSeen}

C2_Witness ==
    /\ InGantt /\ pc = "done"
    /\ visits = <<VisitAt(1, At(Str(Clear))), VisitAt(2, At(Str(Clear))),
                  VisitAt(3, At(Str(<<>>))), VisitAt(4, At(Str(Clear)))>>
    /\ result = {[task |-> Clear, start |-> 1, end |-> 4]}

\* C3: when every visit carries the same non-blank normalized value, the
\* result is one interval from the earliest to the latest visit date.
C3_ConstantValueOneInterval ==
    (InGantt /\ pc = "done" /\ visits # <<>>) =>
        \A v \in ValuesSeen :
            (\A d \in 1..Len(visits) : ObsAt(d) = [k |-> "val", v |-> v]) =>
                result = {[task |-> v,
                           start |-> Min({visits[i].d : i \in DOMAIN visits}),
                           end |-> Max({visits[i].d : i \in DOMAIN visits})]}

C3_Witness ==
    /\ InGantt /\ pc = "done"
    /\ Len(visits) = 3
    /\ visits[1].d = 2 /\ visits[2].d = 3
    /\ \A d \in 1..3 : ObsAt(d) = [k |-> "val", v |-> Clear]
    /\ visits[3].at = At(Str(<<" ", "C", "l", "e", "a", "r", ";">>))
    /\ result = {[task |-> Clear, start |-> 1, end |-> 3]}

-----------------------------------------------------------------------------
(* Claims about getProcedures *)

InProcedures == fn = "getProcedures" /\ pc = "done"

IsLegacyVisit(v) ==
    v.pr # Undef /\ v.pr.act # Undef /\ ~isNewProcedureFormat(v.pr)

IsCurrentVisit(v) == v.pr # Undef /\ isNewProcedureFormat(v.pr)

\* The names one visit contributes by the rules of its own shape
OwnShapeNames(v, eye) ==
    IF v.pr = Undef THEN <<>>
    ELSE IF isNewProcedureFormat(v.pr)
    THEN LET procs == NewFormatProcs(v.pr, eye)
         IN  [i \in DOMAIN procs |-> procs[i].name]
    ELSE CountedNames(ProceduresToCheck(v.pr, eye))

RECURSIVE PerVisitNames(_, _)
PerVisitNames(vs, eye) ==
    IF vs = <<>> THEN <<>>
    ELSE OwnShapeNames(Head(vs), eye) \o PerVisitNames(Tail(vs), eye)

\* C4: on a record that mixes a legacy-shape visit with a current-shape visit,
\* getProcedures counts the procedures of every visit, each extracted by the
\* rules of its own shape: the shape is decided per visit, not per record.
C4_ShapeDecidedPerVisit ==
    (/\ InProcedures
     /\ \E i \in DOMAIN visits : IsLegacyVisit(visits[i])
     /\ \E i \in DOMAIN visits : IsCurrentVisit(visits[i])) =>
        LET procCount == CountNames(<<>>, PerVisitNames(visits, eyeIndex))
        IN  [i \in DOMAIN result |-> result[i].item]
              = [i \in DOMAIN procCount |->
                    ItemLabel(procCount[i].name, procCount[i].count)]

\* The strings of the selected eye in the visit's pr.act, nesting removed
EyeStrings(v, eye) ==
    IF v.pr = Undef \/ v.pr.act = Undef THEN <<>>
    ELSE ActStrings(v.pr.act.a, eye)

\* Where in the record a procedure string of the eye stands: <<visit, place>>
EyePositions(eye) ==
    UNION {{<<v, j>> : j \in DOMAIN EyeStrings(visits[v], eye)} :
              v \in DOMAIN visits}

NameAt(p, eye) == Trim(EyeStrings(visits[p[1]], eye)[p[2]])

\* The distinct trimmed names of the record for the eye, placeholders left out
LegacyNameSet(eye) ==
    {n \in {NameAt(p, eye) : p \in EyePositions(eye)} :
        n # <<>> /\ ~isProcedurePlaceholder(n)}

Occurrences(n, eye) ==
    Cardinality({p \in EyePositions(eye) : NameAt(p, eye) = n})

\* The name, followed by " (Nx)" exactly when N > 1
Labelled(n, N) ==
    IF N > 1 THEN n \o <<" ", "(">> \o Decimal(N) \o <<"x", ")">> ELSE n

TwoAvastin ==
    <<VisitPr(1, Legacy(Arr(<<Str(Avastin)>>), Arr(<<>>))),
      VisitPr(2, Legacy(Arr(<<Str(Avastin)>>), Arr(<<>>)))>>

AvastinTwice ==
    <<[type |-> INJECTION, item |-> Avastin \o <<" ", "(", "2", "x", ")">>]>>

\* C5: for a legacy-shape record and a single-eye selector, getProcedures
\* returns one entry per distinct trimmed name that is not a placeholder, and
\* the entry's label is the name followed by " (Nx)" exactly when the number N
\* of its occurrences for that eye over all visits exceeds 1; two visits with
\* Avastin give the single entry Injection / "Avastin (2x)".
C5_LegacyOneEntryPerName ==
    (/\ InProcedures
     /\ eyeIndex \in {0, 1}
     /\ \A i \in DOMAIN visits : ~IsCurrentVisit(visits[i])) =>
        LET names == LegacyNameSet(eyeIndex)
        IN  /\ Len(result) = Cardinality(names)
            /\ \A n \in names :
                 \E i \in DOMAIN result :
                    result[i].item = Labelled(n, Occurrences(n, eyeIndex))
            /\ (visits = TwoAvastin /\ eyeIndex = 0) => result = AvastinTwice

C5_Witness ==
    /\ InProcedures
    /\ visits = TwoAvastin
    /\ eyeIndex = 0
    /\ result = AvastinTwice

\* The category of the list a procedure object was read from
Category(field) ==
    IF field = "Las" THEN LASER
    ELSE IF field = "inj" THEN INJECTION
    ELSE SURGERY

\* C6: for current-shape visits, every procedure getProcedures reports
\* carries the category of the list it was read from (Laser for Las, Injection
\* for inj, Surgery for surg), whatever its procedure_type or laser_type says.
C6_TypeIsSourceList ==
    (/\ InProcedures
     /\ \A i \in DOMAIN visits : ~IsLegacyVisit(visits[i])) =>
        LET procCount == CountNames(<<>>, NewFormatNames(visits, eyeIndex))
        IN  \A v \in DOMAIN visits :
              IsCurrentVisit(visits[v]) =>
                LET procs == NewFormatProcs(visits[v].pr, eyeIndex)
                IN  \A j \in DOMAIN procs :
                      \A i \in DOMAIN result :
                         procCount[i].name = procs[j].name =>
                            result[i].type = Category(procs[j].field)

-----------------------------------------------------------------------------
(* Claims about the procedure colours *)

\* C7: between two resets, every getProcedureColor call with one name returns
\* one colour, whatever other names are asked in between; and the first
\* getProcedureColor call after a resetProcedureColors returns the first
\* colour of the palette.
C7_ColorStablePerName ==
    /\ \A n \in DOMAIN given : Cardinality(given[n]) <= 1
    /\ (lastCall.op = "get" /\ lastCall.first) =>
            lastCall.color = COLOR_PALETTE[1]

\* After a reset: a first name, then another, then the first name again
C7_Witness ==
    /\ resetSeen
    /\ lastCall.op = "get"
    /\ ~lastCall.first
    /\ colorIndex >= 2
    /\ lastCall.color = COLOR_PALETTE[1]
    /\ given[lastCall.name] = {COLOR_PALETTE[1]}

-----------------------------------------------------------------------------
(* Claims about all the extractors *)

\* C8: on every record that conforms to the declared types, null per-eye
\* entries inside Las/inj/surg included, getProcedures, getLineChartData,
\* getGanttData and getMedicationsGanttData return a value: none throws.
C8_NoExtractorThrows == pc # "threw"

Swap(vs, i, j) ==
    [k \in DOMAIN vs |-> IF k = i THEN vs[j] ELSE IF k = j THEN vs[i] ELSE vs[k]]

\* C9: for visits with pairwise distinct dates, getGanttData, on an
\* observation category and on the diagnosis category, returns the same set
\* of intervals whatever the order of the visit list: exchanging any two
\* neighbours of the list (the exchanges that make up every permutation)
\* leaves the result as it is.
C9_ArrivalOrderIrrelevant ==
    (fn = "getGanttData" /\ pc = "done") =>
        /\ result = getGanttData(visits, section, eyeIndex)
        /\ \A i \in 1..(Len(visits) - 1) :
              result = getGanttData(Swap(visits, i, i + 1), section, eyeIndex)

C9_Witness ==
    /\ fn = "getGanttData" /\ pc = "done"
    /\ section = "diagnosis"
    /\ Len(visits) = 3
    /\ visits[1].d = 3 /\ visits[2].d = 1
    /\ Cardinality(result) >= 2
    /\ \E r \in result : r.start = 1 /\ r.end = 3

\* C10: getGanttData, getDiagnosisGanttData, getMedicationsGanttData,
\* getProcedures and getLineChartData leave the record as it was: no step of
\* a call changes the order of the visit list or a field of a visit.
C10_RecordUnchanged == [][visits' = visits]_vars

\* A call on a list out of date order has returned; its sorted copy differs
C10_Witness ==
    /\ fn = "getGanttData" /\ pc = "done"
    /\ section = "lens"
    /\ Len(visits) >= 2
    /\ visits[1].d > visits[2].d
    /\ sortedVisits # visits
    /\ result # {}

-----------------------------------------------------------------------------
(* Claims about getMedicationsGanttData *)

InMedications == fn = "getMedicationsGanttData" /\ pc = "done"

\* The medication objects of a visit that carry a name
NamedMeds(v) ==
    IF v.m = Undef THEN <<>>
    ELSE SelectSeq(v.m.a, LAMBDA med : med # Null /\ Trim(med.name) # <<>>)

MedKey(med) == Trim(med.name) \o EyeLabel(med.eye)

\* The dates of the visits where the key occurs with a dosage text
DosedDates(key) ==
    {visits[i].d : i \in {j \in DOMAIN visits :
        \E n \in DOMAIN NamedMeds(visits[j]) :
            /\ MedKey(NamedMeds(visits[j])[n]) = key
            /\ DosageStr(NamedMeds(visits[j])[n]) # <<>>}}

\* The dosage texts with which the key occurs at the visit dated d
DosagesAt(key, d) ==
    LET meds == NamedMeds(ByDate(d))
    IN  {DosageStr(meds[n]) : n \in {k \in DOMAIN meds :
            MedKey(meds[k]) = key /\ DosageStr(meds[k]) # <<>>}}

\* C11: for each medication key, the dosage text getMedicationsGanttData
\* reports is the dosage text of the earliest-dated occurrence of the key
\* that has a dosage text, whatever the arrival order of the visits and also
\* when earlier-dated occurrences of the key have no dosage text.
C11_DosageOfEarliestDosedVisit ==
    InMedications =>
        \A i \in DOMAIN result :
            DosedDates(result[i].task) # {} =>
                result[i].dosage
                    \in DosagesAt(result[i].task, Min(DosedDates(result[i].task)))

-----------------------------------------------------------------------------
(* Claims about the acuity texts *)

InConvertVA == fn = "convertVAToNumeric" /\ pc = "done"

\* The fixed special acuity tokens and their severity, worst first
SeverityRank ==
    [token \in {<<"N", "L", "P">>, <<"N", "P", "L">>, <<"P", "L">>, <<"L", "P">>, <<"H", "M">>, <<"C", "F">>} |->
        IF token \in {<<"N", "L", "P">>, <<"N", "P", "L">>} THEN 0
        ELSE IF token \in {<<"P", "L">>, <<"L", "P">>} THEN 1
        ELSE IF token = <<"H", "M">> THEN 2
        ELSE 3]

SpecialAcuityTokens == DOMAIN SeverityRank \cup {<<"N", "O", " ", "P", "L">>, <<"N", "A", "S">>}

\* C12: convertVAToNumeric gives every fixed special acuity token (CF, HM, PL,
\* LP, NLP, NPL, "NO PL", "NAS") a number strictly below that of "6/120", and
\* orders the tokens by severity: NLP = NPL < PL = LP < HM < CF.
C12_SpecialTokensBelowChart ==
    (InConvertVA /\ text \in SpecialAcuityTokens) =>
        /\ result # Null
        /\ result.t = "num"
        /\ result.n < convertVAToNumeric(<<"6", "/", "1", "2", "0">>).n
        /\ text \in DOMAIN SeverityRank =>
              \A other \in DOMAIN SeverityRank :
                 LET o == convertVAToNumeric(other).n
                 IN  /\ SeverityRank[text] < SeverityRank[other] => result.n < o
                     /\ SeverityRank[text] = SeverityRank[other] => result.n = o

C12_Witness ==
    /\ InConvertVA
    /\ text = <<"H", "M">>
    /\ result = Number(-100)
    /\ convertVAToNumeric(<<"6", "/", "1", "2", "0">>) = Number(20)

InDecompress == fn = "decompressVision" /\ pc = "done"

\* One digit, then one or more digits, then anything, and no "/" anywhere
IsCompact(t) ==
    /\ Len(t) >= 2
    /\ IsDigit(t[1]) /\ IsDigit(t[2])
    /\ ~Includes(t, <<"/">>)

\* C13: decompressVision is idempotent; a compact text (a digit, one or more
\* digits, any suffix) gets "/" after its first digit, so "618P" gives "6/18P"
\* and "66" gives "6/6"; a text that contains "/" or is a special token is
\* returned as it is.
C13_DecompressIdempotent ==
    InDecompress =>
        /\ decompressVision(result) = result
        /\ IsCompact(text) => result = <<text[1], "/">> \o Tail(text)
        /\ (Includes(text, <<"/">>) \/ text \in VisionSpecials) => result = text
        /\ text = <<"6", "1", "8", "P">> => result = <<"6", "/", "1", "8", "P">>
        /\ text = <<"6", "6">> => result = <<"6", "/", "6">>

C13_Witness ==
    /\ InDecompress
    /\ text = <<"6", "1", "8", "P">>
    /\ result = <<"6", "/", "1", "8", "P">>
    /\ decompressVision(result) = result

-----------------------------------------------------------------------------
(* Claims about extractCMTFromText *)

InExtractCMT == fn = "extractCMTFromText" /\ pc = "done"

Unlabelled(t) == ~LabelledSides(t).reValue.some /\ ~LabelledSides(t).leValue.some

Thickness(re, le) == [RE |-> re, LE |-> le]

\* C16: when no side is labelled in the text and it holds three or more
\* generic matches (CMT and Foveal Thickness matches together), or none,
\* extractCMTFromText returns null for RE and for LE.
C16_ManyGenericMatchesUnresolved ==
    (/\ InExtractCMT
     /\ Unlabelled(text)
     /\ (Len(allMatches(text)) >= 3 \/ Len(allMatches(text)) = 0)) =>
        result = NoThickness

\* C17: with exactly one generic match, a text that labels one side gives the
\* generic value to the other side and the labelled value to the labelled
\* side, and a text that labels no side gives the generic value to both
\* ("CMT 280" gives 280 and 280); a text that labels both sides gives each
\* side its labelled value whatever the generic matches ("RE 250um LE 300um"
\* gives 250 and 300); an empty text, or none / nan / no data in any case,
\* gives null and null. Every value is subject to parseValue.
C17_OneGenericMatch ==
    InExtractCMT =>
        LET re == LabelledSides(text).reValue
            le == LabelledSides(text).leValue
            all == allMatches(text)
        IN  /\ (Len(all) = 1 /\ re.some /\ ~le.some) =>
                  result = Thickness(parseValue(re), parseValue(Some(all[1])))
            /\ (Len(all) = 1 /\ ~re.some /\ le.some) =>
                  result = Thickness(parseValue(Some(all[1])), parseValue(le))
            /\ (Len(all) = 1 /\ ~re.some /\ ~le.some) =>
                  result = Thickness(parseValue(Some(all[1])), parseValue(Some(all[1])))
            /\ (re.some /\ le.some) =>
                  result = Thickness(parseValue(re), parseValue(le))
            /\ text = <<"C", "M", "T", " ", "2", "8", "0">> => result = Thickness(Number(280), Number(280))
            /\ text = <<"R", "E", " ", "2", "5", "0", "u", "m", " ", "L", "E", " ", "3", "0", "0", "u", "m">> => result = Thickness(Number(250), Number(300))
            /\ text = <<"R", "E", " ", "2", "5", "0", "u", "m", " ", "C", "M", "T", " ", "2", "8", "0">> => result = Thickness(Number(250), Number(280))
            /\ text = <<"l", "e", " ", ",", "'", "3", "2", "0", " ", "M", " ", "C", "M", "T", " ", "2", "8", "0">> => result = Thickness(Number(280), Number(320))
            /\ text = <<"R", "E", " ", "2", "5", "0", "u", "m", " ", "L", "E", ":", " ", "3", "0", "0", " ", "C", "M", "T", " ", "2", "8", "0">> => result = Thickness(Number(250), Number(300))
            /\ (text = <<>> \/ ToLowerCase(text) \in {<<"n", "o", "n", "e">>, <<"n", "a", "n">>, <<"n", "o", " ", "d", "a", "t", "a">>}) =>
                  result = NoThickness

C17_Witness ==
    /\ InExtractCMT
    /\ text = <<"l", "e", " ", ",", "'", "3", "2", "0", " ", "M", " ", "C", "M", "T", " ", "2", "8", "0">>
    /\ Len(allMatches(text)) = 1
    /\ LabelledSides(text) = [reValue |-> None, leValue |-> Some(<<"3", "2", "0", "M">>)]
    /\ result = Thickness(Number(280), Number(320))

-----------------------------------------------------------------------------
(* Claims about the series of getLineChartData *)

InChart == fn = "getLineChartData" /\ pc = "done"

\* The thickness points of the visits vs when each dated visit with a report
\* gives the named side ("RE" or "LE") of extractCMTFromText
RECURSIVE SideSeries(_, _)
SideSeries(vs, side) ==
    IF vs = <<>> THEN <<>>
    ELSE LET visit == Head(vs)
             hasReport == /\ visit.d # 0
                          /\ visit.inv # Undef
                          /\ visit.inv.sp # Undef
                          /\ visit.inv.sp.r # <<>>
             value == IF hasReport THEN extractCMTFromText(visit.inv.sp.r)[side]
                      ELSE Null
         IN  (IF value # Null THEN << [x |-> visit.d, y |-> value] >> ELSE <<>>)
             \o SideSeries(Tail(vs), side)

\* C14 as stated: with the both-sides selector (eye index 2) every thickness
\* point of getLineChartData is the RE result of extractCMTFromText for its
\* visit, never the LE result.
C14_BothSidesTakesRE ==
    (InChart /\ eyeIndex = 2) => result.cmtData = SideSeries(visits, "RE")

\* C14, amended: with the both-sides selector (eye index 2) every thickness
\* point of getLineChartData is the LE result of extractCMTFromText for its
\* visit; only eye index 0 takes the RE result.
C14_BothSidesTakesLE ==
    InChart =>
        /\ eyeIndex = 2 => result.cmtData = SideSeries(visits, "LE")
        /\ eyeIndex = 1 => result.cmtData = SideSeries(visits, "LE")
        /\ eyeIndex = 0 => result.cmtData = SideSeries(visits, "RE")

C14_Witness ==
    /\ InChart
    /\ eyeIndex = 2
    /\ Len(visits) = 1
    /\ visits[1].inv # Undef
    /\ visits[1].inv.sp = Sp(<<"R", "E", " ", "2", "5", "0", "u", "m", " ", "L", "E", " ", "3", "0", "0", "u", "m">>)
    /\ result.cmtData = << [x |-> 1, y |-> Number(300)] >>

-----------------------------------------------------------------------------
(* Claims about the eye selector and the spans of getGanttData *)

InDiagnosis == fn = "getGanttData" /\ section = "diagnosis"

\* The normalized diagnoses the visits file under index i
FiledUnder(i) ==
    UNION { CleanDiagnoses(DiagArray(visits[j].diag, i)) :
              j \in {n \in DOMAIN visits : visits[n].diag # Undef} }

Tasks == {iv.task : iv \in result}

\* C15: with the both-sides selector (eye index 2) the diagnosis intervals of
\* getGanttData cover the union of the two sides: every diagnosis filed under
\* the right-eye index 0 or the left-eye index 1 at some visit is the task of
\* an interval of the result.
C15_BothSidesUnionOfSides ==
    (InDiagnosis /\ pc = "done" /\ eyeIndex = 2) =>
        FiledUnder(0) \cup FiledUnder(1) \subseteq Tasks

\* C18: every interval {v, s, e} of getGanttData on an observation category is
\* a contiguous span of visits with value v: the visits dated s and e record
\* v, and no visit dated from s to e lacks the block, is blank or records
\* another value.
C18_IntervalIsContiguousSpan ==
    (InGantt /\ pc = "done") =>
        \A iv \in result :
            \A d \in iv.start..iv.end : ObsAt(d) = [k |-> "val", v |-> iv.task]

\* The entry the visit holds for the eye: the one at the eye's index of an
\* eye-indexed field, the one at index 0 only when the array has no such
\* index, and the field itself when it is not an array
EntryOfEye(visit, sec, eye) ==
    LET mapping == sectionFieldMap[sec]
        parentObj == visit[mapping.parent]
        raw == IF parentObj = Undef THEN Undef ELSE parentObj[mapping.field]
    IN  IF raw = Undef THEN <<>>
        ELSE IF raw.t # "arr" THEN raw.s
        ELSE IF eye + 1 <= Len(raw.a) THEN raw.a[eye + 1]
        ELSE IF Len(raw.a) >= 1 THEN raw.a[1]
        ELSE <<>>

\* C19: getGanttData reads an eye-indexed field at the requested eye index and
\* at index 0 only when the array has no such index; an entry that is present
\* but empty counts as blank, so every interval carries a value that some
\* visit holds for the requested eye.
C19_EmptyEntryIsBlank ==
    (InGantt /\ pc = "done") =>
        \A iv \in result :
            \E i \in DOMAIN visits :
                normalizeConditionName(EntryOfEye(visits[i], section, eyeIndex)) = iv.task

-----------------------------------------------------------------------------
(* Claims about the tracker of getDiagnosisGanttData *)

\* The visit the next DiagStep handles
NextVisit == sortedVisits[index + 1]

\* The conditions open in the tracker that the next visit, which has a
\* diagnosis array, does not list
AbsentNow ==
    IF NextVisit.diag = Undef THEN {}
    ELSE DOMAIN diagTracker \ CurrentDiagnoses(NextVisit, eyeIndex)

\* Those of them that the visit after the next lists again
BackAfterOneVisit ==
    IF index + 2 > Len(sortedVisits) \/ sortedVisits[index + 2].diag = Undef
    THEN {}
    ELSE AbsentNow \cap CurrentDiagnoses(sortedVisits[index + 2], eyeIndex)

DiagStepTaken == InDiagnosis /\ pc = "loop" /\ index' = index + 1

\* C20 as stated: a condition present at one visit, absent from the next
\* (which has a diagnosis array and a later date) and present again at the
\* visit after that is not closed at the visit where it is absent: its tracker
\* entry stays open with its original start.
C20_StaysOpenAcrossGap ==
    [][DiagStepTaken =>
        \A diag \in BackAfterOneVisit :
            /\ diag \in DOMAIN diagTracker'
            /\ diagTracker'[diag].start = diagTracker[diag].start]_vars

ClosedWhenAbsent ==
    DiagStepTaken =>
        /\ \A diag \in AbsentNow :
              /\ diag \notin DOMAIN diagTracker'
              /\ diag \in DOMAIN diagMap'
              /\ diagMap'[diag].start <= diagTracker[diag].start
              /\ diagMap'[diag].end >= diagTracker[diag].lastSeen
        /\ NextVisit.diag # Undef =>
              \A diag \in CurrentDiagnoses(NextVisit, eyeIndex) \ DOMAIN diagTracker :
                  diagTracker'[diag] = [start |-> NextVisit.d, lastSeen |-> NextVisit.d]

DRGapDR ==
    <<VisitDiag(1, Diag(Arr(<<DR>>), NoDiag, NoDiag)),
      VisitDiag(2, Diag(NoDiag, NoDiag, NoDiag)),
      VisitDiag(3, Diag(Arr(<<DR>>), NoDiag, NoDiag))>>

\* C20, amended: a condition open in the tracker is closed at the first visit
\* with a diagnosis array that does not list it (the dates of a record being
\* distinct): its entry leaves the tracker and its span from start to last
\* seen is merged into the interval map. When it is listed again, at the next
\* visit or later, a new tracker entry starts at that visit's date, and the
\* merge at the end still yields one interval from the original start: DR,
\* none, DR at three dates give {DR, 1st, 3rd}.
C20_ClosedAtGapMergedAtEnd ==
    /\ [][ClosedWhenAbsent]_vars
    /\ [](InDiagnosis /\ pc = "done" /\ visits = DRGapDR /\ eyeIndex = 0
            => result = {[task |-> DR, start |-> 1, end |-> 3]})

C20_Witness ==
    /\ InDiagnosis /\ pc = "loop"
    /\ visits = DRGapDR /\ eyeIndex = 0
    /\ index = 2
    /\ diagTracker = EmptyMap
    /\ diagMap = [k \in {DR} |-> [start |-> 1, end |-> 1]]

-----------------------------------------------------------------------------
(* Claims about the procedure events of getLineChartData *)

EventNames == {result.procedures[i].name : i \in DOMAIN result.procedures}

EventCount(name) ==
    Cardinality({i \in DOMAIN result.procedures : result.procedures[i].name = name})

\* The items of the procedure list for the same record and eye
ListedItems ==
    LET list == getProcedures(visits, eyeIndex)
    IN  {list[i].item : i \in DOMAIN list}

\* C21: for every record and eye selector the procedure events of
\* getLineChartData match the occurrences getProcedures counts: a name has
\* events exactly when the procedure list has an item for it, and the number
\* of its events is the count that item shows.
C21_EventsMatchProcedureList ==
    (InChart /\ ~getProceduresThrows(visits)) =>
        {ItemLabel(name, EventCount(name)) : name \in EventNames} = ListedItems

-----------------------------------------------------------------------------
(* Claims about the special acuity tokens *)

\* C29: every special token that decompressVision passes through uppercased
\* (CF, HM, PL, LP, NLP, NPL, FCMF, FCF) is converted by convertVAToNumeric
\* to a non-null ordinal.
C29_SpecialTokensConvert ==
    (InConvertVA /\ decompressVision(text) \in VisionSpecials) => result # Null

-----------------------------------------------------------------------------
(* Claims about the order of the generic matches of extractCMTFromText *)

\* The generic matches of s (a CMT match or a Foveal Thickness match) from
\* left to right, prev being the character before s
RECURSIVE InTextOrder(_, _)
InTextOrder(prev, s) ==
    IF s = <<>> THEN <<>>
    ELSE LET c == CmtAt(prev, s)
             f == FovealAt(s)
         IN  IF c.ok
             THEN <<c.value>> \o InTextOrder(s[Len(s) - Len(c.rest)], c.rest)
             ELSE IF f.ok
             THEN <<f.value>> \o InTextOrder(s[Len(s) - Len(f.rest)], f.rest)
             ELSE InTextOrder(Head(s), Tail(s))

\* C24: when neither side is labelled and there are exactly two generic
\* matches, RE receives the match that appears first in the text and LE the
\* match that appears second, whichever pattern each match came from.
C24_TwoGenericInTextOrder ==
    (InExtractCMT /\ Unlabelled(text) /\ Len(allMatches(text)) = 2) =>
        LET inOrder == InTextOrder("", noteNorm(text))
        IN  /\ Len(inOrder) = 2
            /\ result = Thickness(parseValue(Some(inOrder[1])),
                                  parseValue(Some(inOrder[2])))

-----------------------------------------------------------------------------
(* Claims about the intervals of getMedicationsGanttData *)

\* The eye suffix of a medication key: codes 1, 2 and 3, as a number or as a
\* string, and nothing for any other code
EyeSuffix(eye) ==
    IF eye \in {Number(1), Str(<<"1">>)} THEN <<" ", "(", "R", "E", ")">>
    ELSE IF eye \in {Number(2), Str(<<"2">>)} THEN <<" ", "(", "L", "E", ")">>
    ELSE IF eye \in {Number(3), Str(<<"3">>)} THEN <<" ", "(", "B", "E", ")">>
    ELSE <<>>

\* The dates of the visits where a medication with a drug name has the key
KeyDates(key) ==
    {visits[i].d : i \in {j \in DOMAIN visits :
        \E n \in DOMAIN NamedMeds(visits[j]) :
            Trim(NamedMeds(visits[j])[n].name)
                \o EyeSuffix(NamedMeds(visits[j])[n].eye) = key}}

\* The keys of the record
MedKeys ==
    UNION {{Trim(NamedMeds(visits[j])[n].name) \o EyeSuffix(NamedMeds(visits[j])[n].eye) :
                n \in DOMAIN NamedMeds(visits[j])} : j \in DOMAIN visits}

\* C23: getMedicationsGanttData returns exactly one interval per key, the key
\* being the trimmed drug name followed by " (RE)", " (LE)" or " (BE)" for eye
\* codes 1, 2, 3 (number or string) and by nothing for any other code; the
\* interval starts at the minimum and ends at the maximum visit date over all
\* occurrences of the key, whatever the order of the visits, and entries
\* without a drug name contribute nothing.
C23_OneIntervalPerKey ==
    InMedications =>
        /\ {result[i].task : i \in DOMAIN result} = MedKeys
        /\ \A i, j \in DOMAIN result : result[i].task = result[j].task => i = j
        /\ \A i \in DOMAIN result :
              /\ result[i].start = Min(KeyDates(result[i].task))
              /\ result[i].end = Max(KeyDates(result[i].task))

\* Visits out of date order; a key seen at three visits, once with the eye
\* code as a string; a second key at the same visit as an entry without a name
C23_Witness ==
    /\ InMedications
    /\ Len(visits) = 3 /\ visits[1].d = 2 /\ visits[2].d = 3 /\ visits[3].d = 1
    /\ \E i \in DOMAIN result :
          /\ result[i].task = Timolol \o <<" ", "(", "R", "E", ")">>
          /\ result[i].start = 1 /\ result[i].end = 3
    /\ \E j \in DOMAIN visits : visits[j].m # Undef /\ \E n \in DOMAIN visits[j].m.a : visits[j].m.a[n] = Null
    /\ \E j \in DOMAIN visits : visits[j].m # Undef /\
          \E n \in DOMAIN visits[j].m.a : visits[j].m.a[n] # Null /\ visits[j].m.a[n].eye = Str(<<"1">>)

-----------------------------------------------------------------------------
(* Claims about classifyProcedureType *)

InClassify == fn = "classifyProcedureType" /\ pc = "done"

\* The lower-cased name contains one of the keywords
Contains(name, keywords) ==
    \E keyword \in keywords : Includes(ToLowerCase(name), keyword)

\* C26: classifyProcedureType returns Injection whenever the lower-cased name
\* contains an injection keyword, even if it also contains a laser or a
\* surgical keyword; otherwise Laser if it contains a laser keyword; otherwise
\* Surgery if it contains a surgical keyword; otherwise Procedure.
C26_InjectionLaserSurgeryPriority ==
    InClassify =>
        result = IF Contains(text, injectionKeywords) THEN INJECTION
                 ELSE IF Contains(text, laserKeywords) THEN LASER
                 ELSE IF Contains(text, surgicalKeywords) THEN SURGERY
                 ELSE PROCEDURE

\* A name with an injection, a laser and a surgical keyword, classified as an
\* injection
C26_Witness ==
    /\ InClassify
    /\ Contains(text, injectionKeywords)
    /\ Contains(text, laserKeywords)
    /\ Contains(text, surgicalKeywords)
    /\ result = INJECTION

-----------------------------------------------------------------------------
(* Claims about the intervals of getGanttData on the diagnoses *)

\* The dates of the visits whose diagnosis set for the eye selector holds c
DiagnosedDates(c) ==
    {visits[j].d : j \in {n \in DOMAIN visits :
        visits[n].diag # Undef /\ c \in CurrentDiagnoses(visits[n], eyeIndex)}}

\* The conditions some visit holds for the eye selector
Diagnosed ==
    UNION {CurrentDiagnoses(visits[j], eyeIndex) :
              j \in {n \in DOMAIN visits : visits[n].diag # Undef}}

\* C27: for every diagnosis condition c and eye selector,
\* getGanttData("diagnosis") returns exactly one interval for c, from the
\* earliest to the latest date of a visit whose diagnosis set for that
\* selector contains c, however many visits in between lack c.
C27_OneSpanPerDiagnosis ==
    (InDiagnosis /\ pc = "done") =>
        /\ Tasks = Diagnosed
        /\ \A iv, other \in result : iv.task = other.task => iv = other
        /\ \A iv \in result :
              /\ iv.start = Min(DiagnosedDates(iv.task))
              /\ iv.end = Max(DiagnosedDates(iv.task))

\* DR at the first and at the last of four visits and at none in between,
\* where the visits in between have a diagnosis block
C27_Witness ==
    /\ InDiagnosis /\ pc = "done"
    /\ Len(visits) = 4
    /\ \A j \in DOMAIN visits : visits[j].diag # Undef
    /\ DiagnosedDates(DR) = {1, 4}
    /\ [task |-> DR, start |-> 1, end |-> 4] \in result

-----------------------------------------------------------------------------
(* Claims about the points of getLineChartData *)

\* The dated visits of the record with date x
DatedAt(x) == {j \in DOMAIN visits : visits[j].d = x /\ x # 0}

Xs(series) == {series[i].x : i \in DOMAIN series}

\* At most one point of the series for each visit date
OnePointPerVisit(series) == \A i, j \in DOMAIN series : series[i].x = series[j].x => i = j

\* The pressure text of the visit for the eye: the entry of the array, or the
\* string itself
PressureText(visit, eye) ==
    IF visit.inv = Undef \/ visit.inv.iop = Undef THEN <<>>
    ELSE IF visit.inv.iop.t = "arr"
    THEN (IF eye + 1 <= Len(visit.inv.iop.a) THEN visit.inv.iop.a[eye + 1] ELSE <<>>)
    ELSE visit.inv.iop.s

\* C25: every point getLineChartData emits is valid and each visit gives at
\* most one point to each series: an acuity point exists only for a visit
\* whose distance value for the selected eye is non-empty and converts to a
\* non-null ordinal, every pressure point has y > 0 and comes from a value
\* other than "Not Measurable", every thickness point has an integer y in
\* [0, 1500], and visits without a date contribute nothing.
C25_PointsValid ==
    InChart =>
        /\ OnePointPerVisit(result.visualAcuityData)
        /\ OnePointPerVisit(result.iopData)
        /\ OnePointPerVisit(result.cmtData)
        /\ \A i \in DOMAIN result.visualAcuityData :
              LET p == result.visualAcuityData[i]
              IN  \E j \in DatedAt(p.x) :
                     /\ visits[j].vi # Undef
                     /\ DistanceAcuity(visits[j].vi, eyeIndex) # <<>>
                     /\ p.y = DistanceAcuity(visits[j].vi, eyeIndex)
                     /\ p.yNumeric = convertVAToNumeric(p.y)
                     /\ p.yNumeric # Null
        /\ \A i \in DOMAIN result.iopData :
              LET p == result.iopData[i]
              IN  /\ p.y \notin {Null, NaN}
                  /\ p.y.n > 0
                  /\ \E j \in DatedAt(p.x) :
                        PressureText(visits[j], eyeIndex) \notin {<<>>, NotMeasurable}
        /\ \A i \in DOMAIN result.cmtData :
              LET p == result.cmtData[i]
              IN  /\ DatedAt(p.x) # {}
                  /\ p.y.t = "num"
                  /\ p.y.n \in 0..UpperLimit

\* Two visits, one of them without a date and with an acuity, a pressure and a
\* report; the other gives a pressure point
C25_Witness ==
    /\ InChart
    /\ Len(visits) = 2
    /\ visits[1].d = 0 /\ visits[1].vi # Undef /\ visits[1].inv # Undef
    /\ result.visualAcuityData = <<>>
    /\ result.cmtData = <<>>
    /\ Len(result.iopData) = 1 /\ result.iopData[1].x = 2

-----------------------------------------------------------------------------
(* Claims about the palette *)

PaletteSize == Len(COLOR_PALETTE)

\* C28: in every state reached by getProcedureColor and resetProcedureColors
\* calls, colorIndex is the number of names in the colour map and the k-th
\* distinct name (from 0) requested since the last reset holds
\* palette[k mod N]; so distinct names have distinct colours while at most N
\* distinct names were requested since the last reset, and the (N+1)-th
\* distinct name has the colour of the first (N = 12).
C28_IndexCountsNamesPaletteCycles ==
    fn = "colors" =>
        /\ colorIndex = Cardinality(DOMAIN procedureColorMap)
        /\ DOMAIN procedureColorMap = {requested[k] : k \in DOMAIN requested}
        /\ \A k \in DOMAIN requested :
              procedureColorMap[requested[k]]
                  = COLOR_PALETTE[((k - 1) % PaletteSize) + 1]
        /\ Len(requested) <= PaletteSize =>
              \A j, k \in DOMAIN requested :
                 procedureColorMap[requested[j]] = procedureColorMap[requested[k]]
                    => j = k
        /\ Len(requested) > PaletteSize =>
              procedureColorMap[requested[PaletteSize + 1]]
                  = procedureColorMap[requested[1]]

\* Thirteen names since the last reset: the thirteenth has just been given the
\* colour of the first
C28_Witness ==
    /\ fn = "colors"
    /\ resetSeen
    /\ Len(requested) = PaletteSize + 1
    /\ lastCall.op = "get"
    /\ lastCall.name = requested[PaletteSize + 1]
    /\ lastCall.color = COLOR_PALETTE[1]
    /\ colorIndex = PaletteSize + 1

-----------------------------------------------------------------------------
(* Claims about the patient cache *)

\* C30: after clearCache() returns, patientCache holds no data obtained from a
\* fetch that was started before the clear: a loadPatientByUID or
\* loadPatientWithClinicalSummary call in flight while clearCache runs does not
\* repopulate the cache when its fetch resolves, so the next loadPatientByUID
\* for that uid fetches again.
C30_NoDataFromBeforeClear ==
    fn = "patient-data.service" =>
        /\ \A u \in DOMAIN patientCache : ~patientCache[u].stale
        /\ lastLoad.op = "cached" => ~lastLoad.data.stale

-----------------------------------------------------------------------------
(* Claims about the colours of the patient page *)

\* The procedure names of the record of the patient u
RecordNames(u) ==
    UNION { LET events == ChartProcedureVisits(
                              [events |-> <<>>, map |-> EmptyMap, index |-> 0,
                               threw |-> FALSE], PatientRecords[u], e).events
            IN  {events[i].name : i \in DOMAIN events} : e \in 0..2 }

====
